---- MODULE Spec2Model ----
(***************************************************************************)
(* Model of the nanobot agent loop (nanobot/agent/loop.py): run(),         *)
(* _process_message and _process_system_message, with the context builder  *)
(* helpers of nanobot/agent/context.py and the tools clear_context         *)
(* (tools/context_management.py) and import_channel_history                *)
(* (tools/import_channel_history.py).                                      *)
(*                                                                         *)
(* Spec is run() taking one message after the other from the bus;          *)
(* SpecTwoTurns is a turn of run() and a turn of process_direct in flight  *)
(* together, interleaving at their awaits; SpecBuild is build_messages     *)
(* called on its own; SpecUserTurn is the user turn of a message with      *)
(* media; SpecBase is BaseChannel._handle_message (channels/base.py);      *)
(* SpecTelegram is the handlers of channels/telegram.py (_on_start,        *)
(* _on_init, _on_message) and SpecSend is TelegramChannel.send; SpecClear  *)
(* is ClearContextTool called on its own, SpecParse is                     *)
(* ReminderTool._parse_time (tools/reminder.py) and SpecReminder the       *)
(* create_reminder calls of regular and system turns.                      *)
(*                                                                         *)
(* Strings are sequences of chunks: a chunk is either the colon ":" or a   *)
(* piece of text without a colon, so that splitting and concatenation are  *)
(* computed as the code computes them.  Python's None is the string made   *)
(* of the single reserved chunk NoneChunk, which is part of no text.       *)
(***************************************************************************)
EXTENDS Integers, Sequences, FiniteSets, TLC

\* ---------------------------------------------------------------- bounds
\* AgentLoop.max_iterations (a constructor argument, default 20)
max_iterations == 2
\* the budget of the environment in one run: a published inbound message
\* costs three, a tool call requested by the model stub costs two
MaxEvents == 10

\* what the environment has spent
Spent(pub, req) == pub + pub + pub + req + req
\* how many tool calls the model stub can still request in one response
CallsAffordable(pub, req) == { n \in 1..MaxEvents : Spent(pub, req + n) <= MaxEvents }

\* Session.get_history returns at most this many entries
HistoryWindow == 1
\* the longest history build_messages is called with on its own
MaxHistory == 2

\* how many media files a message carries at most
MaxMedia == 2

\* how many updates a channel adapter handles in a run
MaxUpdates == 2

\* how many calls a tool object gets when it is called on its own
MaxToolCalls == 3

\* the largest N of the expressions "in N hours / minutes / seconds"
MaxDelay == 2

\* how many turns call create_reminder
MaxReminderTurns == 2

\* --------------------------------------------------------------- strings
NoneChunk == "<None>"
None == <<NoneChunk>>
Colon == ":"
SystemChannel == <<"system">>
CliChannel == <<"cli">>

\* the index of the first colon of s, 0 when s has none (str.split(":", 1))
FirstColon(s) ==
    IF \E i \in 1..Len(s) : s[i] = Colon
    THEN CHOOSE i \in 1..Len(s) : s[i] = Colon /\ \A j \in 1..(i - 1) : s[j] # Colon
    ELSE 0

HasColon(s) == \E i \in 1..Len(s) : s[i] = Colon

Last(s) == s[Len(s)]

\* the last n entries of s (all of s when it has fewer)
LastN(s, n) == IF Len(s) <= n THEN s ELSE SubSeq(s, Len(s) - n + 1, Len(s))

\* str.lower() on the chunks of the texts the adapters deliver
Lower(s) ==
    [i \in 1..Len(s) |->
        IF s[i] = "Send Voice" THEN "send voice"
        ELSE IF s[i] = "Voice Message" THEN "voice message"
        ELSE IF s[i] = "Video" THEN "video"
        ELSE IF s[i] = "Bot" THEN "bot"
        ELSE IF s[i] = "Tomorrow" THEN "tomorrow"
        ELSE s[i]]

\* the phrases that ask for a voice answer (the Russian ones transliterated)
VoicePhrases ==
    { "otvet' golosovym", "otvetit golosovym", "otvetit' golosovym",
      "otprav' golosovym", "golosom otvet'", " golosom", " golosovym",
      "golosom.", "golosovym.", "send voice", "voice message",
      "golosovoe soobshchenie" }

\* any(phrase in user_msg_lower for phrase in [...])
UseVoice(content) == \E i \in 1..Len(content) : Lower(content)[i] \in VoicePhrases

\* the link prefixes youtube_pattern recognises, and the characters that end
\* the video id that has to follow the prefix
VideoLinkPrefixes ==
    { "youtube.com/watch?v=", "youtu.be/", "youtube.com/shorts/", "youtube.com/embed/" }
VideoIdEnd == { " ", "&", "\n", "?", "#" }

\* re.search(youtube_pattern, content): the index of the first recognised
\* link of content, 0 when there is none
YoutubeMatch(content) ==
    LET hits == { i \in 1..(Len(content) - 1) :
                    content[i] \in VideoLinkPrefixes /\ content[i + 1] \notin VideoIdEnd }
    IN  IF hits = {} THEN 0 ELSE CHOOSE i \in hits : \A j \in hits : i <= j

\* youtube_match.group(0)
YoutubeUrl(content) == SubSeq(content, YoutubeMatch(content), YoutubeMatch(content) + 1)

\* ---------------------------------------------------------- fixed texts
\* each text of the code is one chunk; TimeoutText stands for the Russian
\* timeout message of _process_message, the texts of clear_context are kept
\* without their emoji and counts
TimeoutText == <<"timeout: LLM did not answer, ask again later">>
SystemTimeoutText == <<"Sorry, the request took too long to process.">>
FallbackText == <<"I've completed processing but have no response to give.">>
SystemFallbackText == <<"Background task completed.">>
ToolErrorPrefix == <<"Error executing tool: ">>
RunErrorPrefix == <<"Sorry, I encountered an error: ">>
AdminOnlyError == <<"Error: This command is only available to the bot owner (admin).">>
ConfirmError == <<"Error: Confirmation required. Set 'confirm: true' to proceed.">>
ClearedText == <<"Cleared active chat session(s). Context reset.">>
UnknownActionError == <<"Error: Unknown action">>
SystemPrompt == <<"system prompt">>
ImportedText == <<"Successfully imported posts into channel history">>
TranscriptNote == <<"\n\n[SYSTEM: Auto-extracted transcript below]\n">>
TranscriptFailedNote == <<"\n\n[SYSTEM: Failed to extract YouTube transcript: ">>

\* ------------------------------------------------------------ data model
\* dict.get(key, default) on a message's metadata
Get(meta, key, default) == IF key \in DOMAIN meta THEN meta[key] ELSE default

EmptyMeta == [k \in {} |-> FALSE]

\* InboundMessage.session_key: "channel:chat_id"
session_key_of(m) == m.channel \o <<Colon>> \o m.chat_id

\* bool(v) of a metadata value
Truthy(v) == v \notin {None, <<>>}

\* a message of chat 42 of the channel "tg", from user u1
TgMessage(content, media, metadata) ==
    [channel |-> <<"tg">>, sender_id |-> <<"u1">>, chat_id |-> <<"42">>,
     content |-> content, media |-> media, metadata |-> metadata]

\* the messages channel adapters publish: a plain message with a photo; a
\* group message of the admin with a video link that asks for a voice
\* answer; a channel post forwarded to its discussion group
RegularInputs ==
    { TgMessage(<<"hello">>, <<"a.jpg">>, [is_admin |-> FALSE, chat_id |-> <<"42">>]),
      TgMessage(<<"see", " ", "youtu.be/", "abc", " ", "Send Voice">>, <<>>,
                [is_admin |-> TRUE, chat_id |-> <<"42">>, is_group |-> TRUE,
                 message_id |-> <<"m7">>, inline_request_id |-> <<"r1">>]),
      TgMessage(<<"post">>, <<>>,
                [is_admin |-> FALSE, chat_id |-> <<"42">>, is_group |-> TRUE,
                 username |-> None, first_name |-> <<"Ann">>,
                 is_channel_post |-> TRUE,
                 channel_title |-> <<"Voice Message", " fans">>,
                 message_id |-> <<"m8">>]) }

\* the chat ids the subagent manager encodes origins in
SystemChatIds ==
    { <<"tg", Colon, "42">>, <<"tg", Colon, "42", Colon, "7">>, <<"42">> }

\* the announcements the subagent manager publishes on the system channel
SystemInputs ==
    { [channel |-> SystemChannel, sender_id |-> <<"subagent">>, chat_id |-> c,
       content |-> <<"task done">>, media |-> <<>>, metadata |-> EmptyMeta] :
        c \in SystemChatIds }

Inputs == RegularInputs \cup SystemInputs

NoMsg ==
    [channel |-> <<>>, sender_id |-> <<>>, chat_id |-> <<>>, content |-> <<>>,
     media |-> <<>>, metadata |-> EmptyMeta]

\* OutboundMessage(channel, chat_id, content): reply_to and metadata take
\* their defaults
OutboundMessage(channel, chat_id, content) ==
    [channel |-> channel, chat_id |-> chat_id, content |-> content,
     reply_to |-> None, metadata |-> EmptyMeta]

\* an entry of the message list given to the model; a key the Python dict
\* does not carry is None (tool_call_id, name) or empty (tool_calls)
Entry(role, content, tool_calls, tool_call_id, name) ==
    [role |-> role, content |-> content, tool_calls |-> tool_calls,
     tool_call_id |-> tool_call_id, name |-> name]

\* ----------------------------------------------------------- session store
\* SessionManager.get_or_create: the session of the key, created empty on
\* first access
get_or_create(ss, key) ==
    IF key \in DOMAIN ss THEN ss ELSE [k \in DOMAIN ss \cup {key} |-> IF k = key THEN <<>> ELSE ss[k]]

\* Session.add_message
add_message(history, role, content) == Append(history, [role |-> role, content |-> content])

\* Session.get_history: the most recent entries, in the format of the model
get_history(history) ==
    LET recent == LastN(history, HistoryWindow)
    IN  [i \in 1..Len(recent) |-> Entry(recent[i].role, recent[i].content, <<>>, None, None)]

clear_all_but_last(ss) == [k \in DOMAIN ss |-> LastN(ss[k], 1)]

\* Session.clear_history on every session of the manager
clear_all(ss) == [k \in DOMAIN ss |-> <<>>]

\* ---------------------------------------------------------- context builder
\* the words that ask for the media to be looked at (the Russian ones
\* transliterated)
AnalyzeKeywords ==
    { "kartink", "izobrazhen", "foto", "chto na", "opishi", "pokazhi", "analyze",
      "image", "picture", "describe", "look at", "see", "gif", "gifk", "video" }

\* should_analyze: any(kw in text_lower for kw in analyze_keywords)
ShouldAnalyze(text) == \E i \in 1..Len(text) : Lower(text)[i] \in AnalyzeKeywords

\* Path.is_file() of a media path
IsFile(path) == path # "gone.jpg"

\* mimetypes.guess_type(path)[0], "" when the type cannot be guessed
GuessType(path) ==
    IF path \in {"a.jpg", "gone.jpg"} THEN "image/jpeg"
    ELSE IF path = "b.ogg" THEN "audio/ogg"
    ELSE IF path = "c.mp4" THEN "video/mp4"
    ELSE IF path = "d.pdf" THEN "application/pdf"
    ELSE ""

\* the top-level type of a mime type (mime.startswith("image/"), ...)
MimeClass(mime) ==
    IF mime = "image/jpeg" THEN "image"
    ELSE IF mime = "audio/ogg" THEN "audio"
    ELSE IF mime = "video/mp4" THEN "video"
    ELSE "other"

\* the state of the loop over the media paths: the parts built so far, the
\* local b64 ("" while it is unbound), whether the loop has raised
NoParts == [parts |-> <<>>, b64 |-> "", raised |-> FALSE]

\* an inlined part: a data URL of the mime type with the encoded bytes
ImagePart(mime, b64) == [type |-> "image_url", mime |-> mime, data |-> b64]

\* the text part that ends a content list
TextPart(text) == [type |-> "text", text |-> text]

\* one round of "for path in media": a missing file and a path without a
\* mime type are skipped; an image is compressed to JPEG and encoded; audio
\* and video reuse the local b64, which is unbound before the first image
MediaStep(st, path) ==
    IF st.raised \/ ~IsFile(path) \/ GuessType(path) = "" THEN st
    ELSE IF MimeClass(GuessType(path)) = "image"
    THEN [parts |-> Append(st.parts, ImagePart("image/jpeg", path)),
          b64 |-> path, raised |-> FALSE]
    ELSE IF MimeClass(GuessType(path)) \in {"audio", "video"}
    THEN IF st.b64 = "" THEN [st EXCEPT !.raised = TRUE]
         ELSE [st EXCEPT !.parts = Append(@, ImagePart(GuessType(path), st.b64))]
    ELSE st

RECURSIVE MediaParts(_)
\* the loop over the media paths
MediaParts(media) ==
    IF media = <<>> THEN NoParts
    ELSE MediaStep(MediaParts(SubSeq(media, 1, Len(media) - 1)), media[Len(media)])

\* what _build_user_content yields: the text, a list of parts, or an exception
UserContent(raised, text, parts) == [raised |-> raised, text |-> text, parts |-> parts]

\* ContextBuilder._build_user_content: the text alone without media, without
\* a keyword in the text, or without a part; else the parts, the text last
build_user_content(text, media) ==
    LET st == MediaParts(media)
    IN  IF media = <<>> \/ ~ShouldAnalyze(text) THEN UserContent(FALSE, text, <<>>)
        ELSE IF st.raised THEN UserContent(TRUE, text, <<>>)
        ELSE IF st.parts = <<>> THEN UserContent(FALSE, text, <<>>)
        ELSE UserContent(FALSE, text, Append(st.parts, TextPart(text)))

\* the content of the user message: the text, or the list of parts
UserTurnContent(uc) == IF uc.parts = <<>> THEN uc.text ELSE uc.parts

build_messages_prompt_last(history, current_message, media) ==
    history \o <<Entry("system", SystemPrompt, <<>>, None, None)>>
        \o <<Entry("user", UserTurnContent(build_user_content(current_message, media)),
                   <<>>, None, None)>>

\* ContextBuilder.build_messages: system prompt, history, user turn (when
\* _build_user_content does not raise)
build_messages(history, current_message, media) ==
    <<Entry("system", SystemPrompt, <<>>, None, None)>> \o history
        \o <<Entry("user", UserTurnContent(build_user_content(current_message, media)),
                   <<>>, None, None)>>

add_tool_result_no_id(messages, tool_call_id, tool_name, result) ==
    Append(messages, Entry("tool", result, <<>>, None, tool_name))

\* ContextBuilder.add_tool_result
add_tool_result(messages, tool_call_id, tool_name, result) ==
    Append(messages, Entry("tool", result, <<>>, tool_call_id, tool_name))

\* ContextBuilder.add_assistant_message: content or "", tool_calls only when
\* there are some
add_assistant_message(messages, content, tool_calls) ==
    Append(messages,
           Entry("assistant", IF content = None THEN <<>> ELSE content, tool_calls, None, None))

\* the tool_call_dicts built from a response's tool calls
tool_call_dicts(tcs) ==
    [i \in 1..Len(tcs) |->
        [id |-> tcs[i].id, type |-> "function",
         function |-> [name |-> tcs[i].name, arguments |-> tcs[i].arguments]]]

\* ------------------------------------------------------------------ tools
\* the names the registry holds (_register_default_tools)
RegisteredTools ==
    {"exec", "youtube_summary", "message", "spawn", "read_channel_history",
     "import_channel_history", "clear_context"}

\* the tools the model stub asks for
ToolNames == {"exec", "clear_context", "import_channel_history"}

NoArgs == [action |-> None, confirm |-> FALSE]

\* the arguments the model stub passes to a tool
ArgsOf(name) ==
    IF name = "clear_context" THEN [action |-> <<"session">>, confirm |-> TRUE] ELSE NoArgs

\* the k-th tool call of the response to the it-th model call of a turn
ToolCall(it, k, name) ==
    [id |-> <<"call_", ToString(it), "_", ToString(k)>>, name |-> name,
     arguments |-> ArgsOf(name)]

\* the tool-call lists of n calls a response can carry
ToolCallLists(it, n) ==
    { [k \in 1..n |-> ToolCall(it, k, f[k])] : f \in [1..n -> ToolNames] }

\* what an execution yields: a result string, or an exception (raised) with
\* its message; ss is the session store after the execution
Outcome(raised, result, ss) == [raised |-> raised, result |-> result, ss |-> ss]

\* ClearContextTool.execute
ClearContextExecute(args, ctx, ss) ==
    IF ~ctx.is_admin THEN Outcome(FALSE, AdminOnlyError, ss)
    ELSE IF ~args.confirm THEN Outcome(FALSE, ConfirmError, ss)
    ELSE IF args.action \in {<<"session">>, <<"today">>, <<"all">>}
         THEN Outcome(FALSE, ClearedText, clear_all(ss))
         ELSE Outcome(FALSE, UnknownActionError, ss)

\* str.replace("-", "neg").replace("|", "_") on a chat id
Sanitize(chat_id) ==
    [i \in 1..Len(chat_id) |->
        IF chat_id[i] = "-" THEN "neg" ELSE IF chat_id[i] = "|" THEN "_" ELSE chat_id[i]]

\* _get_history_file: the history file of the tool's current chat
HistoryFile(chat_id) ==
    IF ~Truthy(chat_id) THEN <<"channel_history.jsonl">>
    ELSE <<"chat_">> \o Sanitize(chat_id) \o <<".jsonl">>

\* ImportChannelHistoryTool.execute on a valid export file with posts; files
\* are the history files that have been written
ImportChannelHistoryExecute(args, ctx, files) ==
    IF ~ctx.is_admin THEN Outcome(FALSE, AdminOnlyError, files)
    ELSE Outcome(FALSE, ImportedText, files \cup {HistoryFile(ctx.chat_id)})

\* what the tools act on: the sessions of the manager, the history files
World(ss, files) == [sessions |-> ss, files |-> files]

\* ToolRegistry.execute: an unknown name fails; a tool's exception propagates.
\* ctx holds the contexts of the context-dependent tools, w the world before
\* the execution; fate is what a tool without a model of its own does: "ok"
\* or "raise"
RegistryExecute(name, args, ctx, w, fate) ==
    IF name \notin RegisteredTools THEN Outcome(TRUE, <<"Unknown tool">>, w)
    ELSE IF name = "clear_context"
    THEN LET o == ClearContextExecute(args, ctx.clear, w.sessions)
         IN  Outcome(o.raised, o.result, World(o.ss, w.files))
    ELSE IF name = "import_channel_history"
    THEN LET o == ImportChannelHistoryExecute(args, ctx.import, w.files)
         IN  Outcome(o.raised, o.result, World(w.sessions, o.ss))
    ELSE IF fate = "raise" THEN Outcome(TRUE, <<"boom">>, w)
    ELSE Outcome(FALSE, <<"ok">>, w)

Fates == {"ok", "raise"}

\* the result string of one tool call of the loop: the tool's result, or the
\* error text when the execution raised (try/except around tools.execute)
ToolResultOf(o) == IF o.raised THEN ToolErrorPrefix \o o.result ELSE o.result

\* the tools the loop sets the user context of before executing them
UserContextTools == {"clear_context", "import_channel_history"}

\* the tools the loop sets the chat context of before executing them
ChatContextTools == {"read_channel_history", "import_channel_history", "create_reminder"}

\* the context of clear_context once the loop has prepared the call of the
\* tool called name: set_user_context on the tool that is called
UserContextFor(name, m, ctx) ==
    IF name \in UserContextTools /\ name = "clear_context"
    THEN [user_id |-> Get(m.metadata, "user_id", <<"unknown">>),
          is_admin |-> Get(m.metadata, "is_admin", FALSE)]
    ELSE ctx

\* the context of import_channel_history once the loop has prepared the call
\* of the tool called name: set_user_context keeps the admin flag,
\* set_chat_context the chat id of the metadata (the sender id without one)
ImportContextFor(name, m, ctx) ==
    LET user == IF name \in UserContextTools /\ name = "import_channel_history"
                THEN [ctx EXCEPT !.is_admin = Get(m.metadata, "is_admin", FALSE)]
                ELSE ctx
    IN  IF name \in ChatContextTools /\ name = "import_channel_history"
        THEN [user EXCEPT !.chat_id = Get(m.metadata, "chat_id", m.sender_id)]
        ELSE user

\* the contexts of the context-dependent tools as the registry finds them
ToolContexts(clear, import) == [clear |-> clear, import |-> import]

\* ------------------------------------------------------------ the loop
\* while iteration < self.max_iterations
LoopGuardOffByOne(iteration) == iteration <= max_iterations

LoopGuard(iteration) == iteration < max_iterations

FinalOrFallbackFalsy(final_content, fallback) ==
    IF final_content = None \/ final_content = <<>> THEN fallback ELSE final_content

\* if final_content is None: the fallback text
FinalOrFallback(final_content, fallback) ==
    IF final_content = None THEN fallback ELSE final_content

\* the origin "channel:chat_id" of a system message, split at the last colon
ParseOriginLastColon(chat_id) ==
    IF HasColon(chat_id)
    THEN LET i == CHOOSE i \in 1..Len(chat_id) :
                      chat_id[i] = Colon /\ \A j \in (i + 1)..Len(chat_id) : chat_id[j] # Colon
         IN  [channel |-> SubSeq(chat_id, 1, i - 1),
              chat_id |-> SubSeq(chat_id, i + 1, Len(chat_id))]
    ELSE [channel |-> CliChannel, chat_id |-> chat_id]

\* the origin "channel:chat_id" a system message's chat_id encodes
\* (msg.chat_id.split(":", 1), "cli" when there is no colon)
ParseOrigin(chat_id) ==
    IF HasColon(chat_id)
    THEN [channel |-> SubSeq(chat_id, 1, FirstColon(chat_id) - 1),
          chat_id |-> SubSeq(chat_id, FirstColon(chat_id) + 1, Len(chat_id))]
    ELSE [channel |-> CliChannel, chat_id |-> chat_id]

ChannelPostContentNoText(m) ==
    IF Get(m.metadata, "is_channel_post", FALSE)
    THEN <<"SYSTEM: You are commenting on a channel post in '">>
             \o Get(m.metadata, "channel_title", <<"Unknown">>)
             \o <<"'. ... POST CONTENT:\n">>
             \o <<"\n\nWrite your public comment below (keep it concise and engaging):">>
    ELSE m.content

\* the channel-post framing of _process_message
ChannelPostContent(m) ==
    IF Get(m.metadata, "is_channel_post", FALSE)
    THEN <<"SYSTEM: You are commenting on a channel post in '">>
             \o Get(m.metadata, "channel_title", <<"Unknown">>)
             \o <<"'. ... POST CONTENT:\n">> \o m.content
             \o <<"\n\nWrite your public comment below (keep it concise and engaging):">>
    ELSE m.content

\* current_message: the content, prefixed in groups by who is writing
CurrentMessage(m) ==
    IF Get(m.metadata, "is_group", FALSE)
    THEN IF Get(m.metadata, "is_admin", FALSE)
         THEN <<"[Admin/Owner] ">> \o m.content
         ELSE LET u == Get(m.metadata, "username", None)
                  f == Get(m.metadata, "first_name", None)
                  username == IF u \notin {None, <<>>} THEN u
                              ELSE IF f \notin {None, <<>>} THEN f ELSE <<"User">>
              IN  <<"[Community member: ">> \o username \o <<"] ">> \o m.content
    ELSE m.content

\* YouTubeSummaryTool.execute on a link whose transcript is available
TranscriptOf(url) ==
    <<"YouTube ", "Video", " Transcript (ID: ">> \o <<Last(url)>> \o <<"): ...">>

\* the calls of youtube_summary the turn makes before its loop
YoutubeCalls(content, fate) ==
    IF YoutubeMatch(content) # 0 /\ "youtube_summary" \in RegisteredTools
    THEN <<[url |-> YoutubeUrl(content), raised |-> fate = "raise"]>>
    ELSE <<>>

AutoExtractTranscriptNoNote(current_message, content, fate) ==
    IF YoutubeMatch(content) = 0 \/ "youtube_summary" \notin RegisteredTools \/ fate = "raise"
    THEN current_message
    ELSE current_message \o TranscriptNote \o TranscriptOf(YoutubeUrl(content))

\* "Auto-detect and extract YouTube transcripts BEFORE LLM call": the user
\* message with the transcript of the first link of content, or with the
\* failure note when youtube_summary raised (fate)
AutoExtractTranscript(current_message, content, fate) ==
    IF YoutubeMatch(content) = 0 \/ "youtube_summary" \notin RegisteredTools
    THEN current_message
    ELSE IF fate = "raise"
         THEN current_message \o TranscriptFailedNote \o <<"boom">> \o <<"]">>
         ELSE current_message \o TranscriptNote \o TranscriptOf(YoutubeUrl(content))

\* the metadata of the response: the voice flag, the inline request id
ResponseMetadata(m) ==
    LET voice == IF UseVoice(m.content) THEN ("voice" :> TRUE) ELSE EmptyMeta
        inline == IF Truthy(Get(m.metadata, "inline_request_id", None))
                  THEN ("inline_request_id" :> m.metadata.inline_request_id)
                  ELSE EmptyMeta
    IN  voice @@ inline

\* the OutboundMessage _process_message returns for m (m.content is the
\* content as the turn left it)
Response(m, final) ==
    [channel |-> m.channel, chat_id |-> m.chat_id, content |-> final,
     reply_to |-> Get(m.metadata, "message_id", None),
     metadata |-> ResponseMetadata(m)]

NextCallReversed(tcs, idx) == tcs[Len(tcs) + 1 - idx]

\* for tool_call in response.tool_calls: the call the loop executes idx-th
NextCall(tcs, idx) == tcs[idx]

RunAwaitsInboundEarly(p) == p \in {"idle", "persist"}

\* run() is at "await consume_inbound" only when nothing is being processed
RunAwaitsInbound(p) == p = "idle"

\* ------------------------------------------------------------------ state
VARIABLES
    inbound,        \* the bus's inbound queue
    outbound,       \* the bus's outbound queue, as published
    published,      \* how many inbound messages the adapters have published
    consumed,       \* how many inbound messages run() has consumed
    sessions,       \* SessionManager.sessions: key -> history
    message_ctx,    \* the message tool's context (channel, chat_id)
    spawn_ctx,      \* the spawn tool's context (channel, chat_id)
    clear_ctx,      \* the clear_context tool's user context
    import_ctx,     \* the import_channel_history tool's admin flag and chat id
    history_files,  \* the channel history files that have been written
    pc,             \* where run() is
    msg,            \* the inbound message being processed
    received,       \* that message as run() consumed it
    youtube_calls,  \* the calls of youtube_summary before the loop of the turn
    origin,         \* origin_channel, origin_chat_id of the turn
    session_key,    \* the key of the session of the turn
    messages,       \* the message list of the turn
    iteration,      \* the loop counter of the turn
    final_content,  \* the final answer of the turn, None until there is one
    tool_calls,     \* the tool calls of the response being handled
    tc_idx,         \* the index of the tool call to execute next
    hist0,          \* the history of the turn's session when the turn began
    llm_calls,      \* the provider.chat calls of the turn
    tool_execs,     \* the tools.execute calls of the turn
    tool_responses, \* the responses of the turn that carried tool calls
    tools_requested,\* the tool calls the model stub has requested in the run
    saves,          \* the sessions.save calls of the turn
    last_request,   \* the message list of the latest provider.chat call
    first_response, \* the first response of the turn
    raised_at,      \* the indices of the tool calls of the response that raised
    timed_out,      \* whether a model call of the turn timed out
    outcome,        \* how the latest turn ended: "none", "returned", "raised"
    tasks,          \* two turns in flight on one loop: where each of them is
    bm,             \* a call of build_messages: its arguments and its result
    ut,             \* a message with media and the user turn built for it
    ch,             \* a channel adapter: its configuration, its per-user states
    snd,            \* a call of TelegramChannel.send: its message, what it sent
    tl              \* a tool called on its own: its attributes, what it acts on

vars ==
    <<inbound, outbound, published, consumed, sessions, message_ctx, spawn_ctx,
      clear_ctx, import_ctx, history_files, pc, msg, received, youtube_calls,
      origin, session_key, messages, iteration, final_content,
      tool_calls, tc_idx, hist0, llm_calls, tool_execs, tool_responses,
      tools_requested, saves, last_request, first_response, raised_at, timed_out,
      outcome, tasks, bm, ut, ch, snd, tl>>

\* the variables of run() and its turns
loopVars ==
    <<inbound, outbound, published, consumed, sessions, message_ctx, spawn_ctx,
      clear_ctx, import_ctx, history_files, pc, msg, received, youtube_calls,
      origin, session_key, messages, iteration, final_content,
      tool_calls, tc_idx, hist0, llm_calls, tool_execs, tool_responses,
      tools_requested, saves, last_request, first_response, raised_at, timed_out,
      outcome>>

busVars == <<inbound, published>>
adminVars == <<clear_ctx, import_ctx, history_files>>
toolVars == <<message_ctx, spawn_ctx, adminVars>>
turnVars == <<msg, received, youtube_calls, origin, session_key, hist0>>
auxVars == <<tasks, bm, ut, ch, snd, tl>>
obsVars == <<llm_calls, tool_execs, tool_responses, saves, first_response>>

NoContext == [channel |-> None, chat_id |-> None]
NoResponse == [has_tool_calls |-> FALSE, content |-> None, answered |-> FALSE]

\* the turns that can be in flight together: the one of run(), the one of a
\* caller of process_direct
Tasks == {"run", "direct"}

\* a task that is in no turn
IdleTask ==
    [pc |-> "idle", own |-> NoContext, used |-> NoContext, iteration |-> 0,
     arg |-> None, key |-> <<>>, entry |-> <<>>, final |-> None]
IdleTasks == [t \in Tasks |-> IdleTask]

\* no call of build_messages
NoBuild == [history |-> <<>>, given |-> <<>>, current_message |-> <<>>,
            result |-> <<>>, built |-> FALSE]

\* no user turn, no channel adapter, no call of send under observation
NoUserTurn == [message |-> NoMsg, built |-> FALSE]
NoChannel == [started |-> FALSE]
NoSend == [done |-> FALSE]
NoTool == [calls |-> 0]

\* the loop after construction
InitLoop ==
    /\ inbound = <<>>
    /\ outbound = <<>>
    /\ published = 0
    /\ consumed = 0
    /\ sessions = [k \in {} |-> <<>>]
    /\ message_ctx = NoContext
    /\ spawn_ctx = NoContext
    /\ clear_ctx = [user_id |-> None, is_admin |-> FALSE]
    /\ import_ctx = [is_admin |-> FALSE, chat_id |-> None]
    /\ history_files = {}
    /\ pc = "idle"
    /\ msg = NoMsg
    /\ received = NoMsg
    /\ youtube_calls = <<>>
    /\ origin = NoContext
    /\ session_key = <<>>
    /\ messages = <<>>
    /\ iteration = 0
    /\ final_content = None
    /\ tool_calls = <<>>
    /\ tc_idx = 0
    /\ hist0 = <<>>
    /\ llm_calls = 0
    /\ tool_execs = 0
    /\ tool_responses = 0
    /\ tools_requested = 0
    /\ saves = 0
    /\ last_request = <<>>
    /\ first_response = NoResponse
    /\ raised_at = {}
    /\ timed_out = FALSE
    /\ outcome = "none"

Init ==
    /\ InitLoop
    /\ tasks = IdleTasks
    /\ bm = NoBuild
    /\ ut = NoUserTurn
    /\ ch = NoChannel
    /\ snd = NoSend
    /\ tl = NoTool

\* ---------------------------------------------------------------- the bus
\* a channel adapter or the subagent manager publishes an inbound message
PublishInbound ==
    /\ UNCHANGED auxVars
    /\ Spent(published + 1, tools_requested) <= MaxEvents
    /\ \E m \in Inputs : inbound' = Append(inbound, m)
    /\ published' = published + 1
    /\ UNCHANGED <<outbound, consumed, sessions, toolVars, pc, turnVars, messages,
                   iteration, final_content, tool_calls, tc_idx, llm_calls, tool_execs,
                   tool_responses, tools_requested, saves, last_request, first_response,
                   raised_at, outcome, timed_out>>

\* run()'s except branch: the error message for the message being processed
RunErrorMessage(m, e) == OutboundMessage(m.channel, m.chat_id, RunErrorPrefix \o e)

\* the locals of _process_message are gone once it has returned or raised
EndTurn ==
    /\ messages' = <<>>
    /\ tool_calls' = <<>>
    /\ tc_idx' = 0
    /\ iteration' = 0
    /\ last_request' = <<>>
    /\ UNCHANGED <<raised_at, timed_out>>

\* the counters of a turn, reset when a message is consumed
StartTurn ==
    /\ consumed' = consumed + 1
    /\ inbound' = Tail(inbound)
    /\ iteration' = 0
    /\ final_content' = None
    /\ tool_calls' = <<>>
    /\ tc_idx' = 0
    /\ llm_calls' = 0
    /\ tool_execs' = 0
    /\ tool_responses' = 0
    /\ saves' = 0
    /\ last_request' = <<>>
    /\ first_response' = NoResponse
    /\ raised_at' = {}
    /\ timed_out' = FALSE
    /\ UNCHANGED <<published, tools_requested, adminVars>>

\* run() publishes the response of a turn (if response: publish_outbound)
RunPublishNothing(out, response) == out

RunPublish(out, response) == Append(out, response)

\* the turn's session with the user entry appended before the loop
SessionsAtStartEager(ss, key, content) ==
    [get_or_create(ss, key) EXCEPT ![key] = add_message(@, "user", content)]

\* the session store once the turn has resolved its session (get_or_create)
SessionsAtStart(ss, key, content) == get_or_create(ss, key)

PersistTurnAssistantOnly(history, user_content, final) ==
    add_message(history, "assistant", final)

\* "Save to session": the user entry, then the assistant entry
PersistTurn(history, user_content, final) ==
    add_message(add_message(history, "user", user_content), "assistant", final)

AfterTimeoutRetry == "loop"

\* where the loop goes when the model call times out (break)
AfterTimeout == "persist"

AfterToolAbortOnRaise(o, idx, n) == IF o.raised \/ idx >= n THEN "loop" ELSE "tools"

\* where the loop goes after the idx-th of n tool calls: the next call, or
\* the next iteration
AfterTool(o, idx, n) == IF idx < n THEN "tools" ELSE "loop"

\* ----------------------------------------------- _process_message (regular)
\* run() consumes a message of a regular channel; _process_message runs up to
\* its loop: channel-post framing, session, tool contexts, message list
ProcessMessage ==
    /\ UNCHANGED auxVars
    /\ RunAwaitsInbound(pc)
    /\ inbound # <<>>
    /\ Head(inbound).channel # SystemChannel
    /\ \E fate \in Fates :
         LET m == [Head(inbound) EXCEPT !.content = ChannelPostContent(Head(inbound))]
             key == session_key_of(m)
             ss == SessionsAtStart(sessions, key, m.content)
             current_message == AutoExtractTranscript(CurrentMessage(m), m.content, fate)
         IN  /\ msg' = m
             /\ received' = Head(inbound)
             /\ youtube_calls' = YoutubeCalls(m.content, fate)
             /\ session_key' = key
             /\ origin' = [channel |-> m.channel, chat_id |-> m.chat_id]
             /\ sessions' = ss
             /\ hist0' = get_or_create(sessions, key)[key]
             /\ message_ctx' = [channel |-> m.channel, chat_id |-> m.chat_id]
             /\ spawn_ctx' = [channel |-> m.channel, chat_id |-> m.chat_id]
             /\ ~build_user_content(current_message, m.media).raised
             /\ messages' = build_messages(get_history(ss[key]), current_message, m.media)
    /\ StartTurn
    /\ pc' = "loop"
    /\ outcome' = "none"
    /\ UNCHANGED outbound

\* the same, but building the message list raises: run() publishes the error
ProcessMessageRaises ==
    /\ UNCHANGED auxVars
    /\ RunAwaitsInbound(pc)
    /\ inbound # <<>>
    /\ Head(inbound).channel # SystemChannel
    /\ \E fate \in Fates :
           youtube_calls' =
               YoutubeCalls(ChannelPostContent(Head(inbound)), fate)
    /\ LET m == [Head(inbound) EXCEPT !.content = ChannelPostContent(Head(inbound))]
           key == session_key_of(m)
       IN  /\ msg' = m
           /\ received' = Head(inbound)
           /\ session_key' = key
           /\ origin' = [channel |-> m.channel, chat_id |-> m.chat_id]
           /\ sessions' = SessionsAtStart(sessions, key, m.content)
           /\ hist0' = get_or_create(sessions, key)[key]
           /\ message_ctx' = [channel |-> m.channel, chat_id |-> m.chat_id]
           /\ spawn_ctx' = [channel |-> m.channel, chat_id |-> m.chat_id]
           /\ outbound' = RunPublish(outbound, RunErrorMessage(m, <<"boom">>))
    /\ StartTurn
    /\ pc' = "idle"
    /\ outcome' = "raised"
    /\ UNCHANGED messages

\* the loop head: one more iteration, the model is called
CallLLM ==
    /\ UNCHANGED auxVars
    /\ pc = "loop"
    /\ msg.channel # SystemChannel
    /\ LoopGuard(iteration)
    /\ iteration' = iteration + 1
    /\ llm_calls' = llm_calls + 1
    /\ last_request' = messages
    /\ pc' = "llm"
    /\ UNCHANGED <<busVars, outbound, consumed, sessions, toolVars, turnVars, messages,
                   final_content, tool_calls, tc_idx, tool_execs, tool_responses,
                   tools_requested, saves, first_response, raised_at, outcome, timed_out>>

\* the loop head when the iteration budget is used up
LoopExit ==
    /\ UNCHANGED auxVars
    /\ pc = "loop"
    /\ msg.channel # SystemChannel
    /\ ~LoopGuard(iteration)
    /\ pc' = "persist"
    /\ UNCHANGED <<busVars, outbound, consumed, sessions, toolVars, turnVars, messages,
                   iteration, final_content, tool_calls, tc_idx, llm_calls, tool_execs,
                   tool_responses, tools_requested, saves, last_request, first_response,
                   raised_at, outcome, timed_out>>

\* the first response of a turn, kept for the record
Recorded(has_tool_calls, content) ==
    IF first_response.answered THEN first_response
    ELSE [has_tool_calls |-> has_tool_calls, content |-> content, answered |-> TRUE]

\* the model answers with tool calls: the assistant entry is appended
LLMToolCalls ==
    /\ UNCHANGED auxVars
    /\ pc = "llm"
    /\ msg.channel # SystemChannel
    /\ \E n \in CallsAffordable(published, tools_requested), content \in {None, <<>>} :
         \E tcs \in ToolCallLists(iteration, n) :
            /\ messages' = add_assistant_message(messages, content, tool_call_dicts(tcs))
            /\ tool_calls' = tcs
            /\ tools_requested' = tools_requested + n
            /\ first_response' = Recorded(TRUE, None)
    /\ tc_idx' = 1
    /\ raised_at' = {}
    /\ tool_responses' = tool_responses + 1
    /\ pc' = "tools"
    /\ UNCHANGED <<busVars, outbound, consumed, sessions, toolVars, turnVars, iteration,
                   final_content, llm_calls, tool_execs, saves, last_request, outcome, timed_out>>

\* the final answers the model stub gives
FinalContents == {<<"hi there">>, <<>>, None}

\* the model answers without tool calls: the loop ends
LLMFinal ==
    /\ UNCHANGED auxVars
    /\ pc = "llm"
    /\ msg.channel # SystemChannel
    /\ \E content \in FinalContents :
            /\ final_content' = content
            /\ first_response' = Recorded(FALSE, content)
    /\ pc' = "persist"
    /\ UNCHANGED <<busVars, outbound, consumed, sessions, toolVars, turnVars, messages,
                   iteration, tool_calls, tc_idx, llm_calls, tool_execs, tool_responses,
                   tools_requested, saves, last_request, raised_at, outcome, timed_out>>

\* the model call times out: the degraded answer, the loop ends
LLMTimeout ==
    /\ UNCHANGED auxVars
    /\ pc = "llm"
    /\ msg.channel # SystemChannel
    /\ final_content' = TimeoutText
    /\ timed_out' = TRUE
    /\ pc' = AfterTimeout
    /\ UNCHANGED <<busVars, outbound, consumed, sessions, toolVars, turnVars, messages,
                   iteration, tool_calls, tc_idx, llm_calls, tool_execs, tool_responses,
                   tools_requested, saves, last_request, first_response, raised_at, outcome>>

\* the model call raises another exception: it leaves _process_message and
\* run() publishes the error message
LLMRaises ==
    /\ UNCHANGED auxVars
    /\ pc = "llm"
    /\ msg.channel # SystemChannel
    /\ outbound' = RunPublish(outbound, RunErrorMessage(msg, <<"boom">>))
    /\ EndTurn
    /\ pc' = "idle"
    /\ outcome' = "raised"
    /\ UNCHANGED <<busVars, consumed, sessions, toolVars, turnVars, final_content,
                   llm_calls, tool_execs, tool_responses, tools_requested, saves,
                   first_response>>

\* one tool call of the response: contexts, execution, result entry
ExecuteTool ==
    /\ UNCHANGED auxVars
    /\ pc = "tools"
    /\ msg.channel # SystemChannel
    /\ \E fate \in Fates :
         LET tc == NextCall(tool_calls, tc_idx)
             clear == UserContextFor(tc.name, msg, clear_ctx)
             import == ImportContextFor(tc.name, msg, import_ctx)
             o == RegistryExecute(tc.name, tc.arguments, ToolContexts(clear, import),
                                  World(sessions, history_files), fate)
         IN  /\ clear_ctx' = clear
             /\ import_ctx' = import
             /\ sessions' = o.ss.sessions
             /\ history_files' = o.ss.files
             /\ messages' = add_tool_result(messages, tc.id, tc.name, ToolResultOf(o))
             /\ raised_at' = IF o.raised THEN raised_at \cup {tc_idx} ELSE raised_at
             /\ pc' = AfterTool(o, tc_idx, Len(tool_calls))
    /\ tc_idx' = tc_idx + 1
    /\ tool_execs' = tool_execs + 1
    /\ UNCHANGED <<busVars, outbound, consumed, message_ctx, spawn_ctx, turnVars,
                   iteration, final_content, tool_calls, llm_calls, tool_responses,
                   tools_requested, saves, last_request, first_response, outcome, timed_out>>

\* after the loop: fallback, session entries, save; run() publishes the response
Persist ==
    /\ UNCHANGED auxVars
    /\ pc = "persist"
    /\ msg.channel # SystemChannel
    /\ LET final == FinalOrFallback(final_content, FallbackText)
       IN  /\ final_content' = final
           /\ sessions' = [sessions EXCEPT
                  ![session_key] = PersistTurn(@, msg.content, final)]
           /\ outbound' = RunPublish(outbound, Response(msg, final))
    /\ saves' = saves + 1
    /\ EndTurn
    /\ pc' = "idle"
    /\ outcome' = "returned"
    /\ UNCHANGED <<busVars, consumed, toolVars, turnVars, llm_calls, tool_execs,
                   tool_responses, tools_requested, first_response>>

\* ---------------------------------------------------- _process_system_message
\* the user entry a system turn persists
SystemUserEntry(m) == <<"[System: ">> \o m.sender_id \o <<"] ">> \o m.content

\* run() consumes a system message; _process_system_message runs up to its
\* loop: origin, session, tool contexts, message list
ProcessSystemMessage ==
    /\ UNCHANGED auxVars
    /\ RunAwaitsInbound(pc)
    /\ inbound # <<>>
    /\ Head(inbound).channel = SystemChannel
    /\ received' = Head(inbound)
    /\ youtube_calls' = <<>>
    /\ LET m == Head(inbound)
           o == ParseOrigin(m.chat_id)
           key == o.channel \o <<Colon>> \o o.chat_id
           ss == SessionsAtStart(sessions, key, SystemUserEntry(m))
       IN  /\ msg' = m
           /\ origin' = o
           /\ session_key' = key
           /\ sessions' = ss
           /\ hist0' = get_or_create(sessions, key)[key]
           /\ message_ctx' = o
           /\ spawn_ctx' = o
           /\ messages' = build_messages(get_history(ss[key]), m.content, <<>>)
    /\ StartTurn
    /\ pc' = "loop"
    /\ outcome' = "none"
    /\ UNCHANGED outbound

\* the same, but building the message list raises: run() publishes the error
ProcessSystemMessageRaises ==
    /\ UNCHANGED auxVars
    /\ RunAwaitsInbound(pc)
    /\ inbound # <<>>
    /\ Head(inbound).channel = SystemChannel
    /\ received' = Head(inbound)
    /\ youtube_calls' = <<>>
    /\ LET m == Head(inbound)
           o == ParseOrigin(m.chat_id)
           key == o.channel \o <<Colon>> \o o.chat_id
       IN  /\ msg' = m
           /\ origin' = o
           /\ session_key' = key
           /\ sessions' = SessionsAtStart(sessions, key, SystemUserEntry(m))
           /\ hist0' = get_or_create(sessions, key)[key]
           /\ message_ctx' = o
           /\ spawn_ctx' = o
           /\ outbound' = RunPublish(outbound, RunErrorMessage(m, <<"boom">>))
    /\ StartTurn
    /\ pc' = "idle"
    /\ outcome' = "raised"
    /\ UNCHANGED messages

SystemCallLLM ==
    /\ UNCHANGED auxVars
    /\ pc = "loop"
    /\ msg.channel = SystemChannel
    /\ LoopGuard(iteration)
    /\ iteration' = iteration + 1
    /\ llm_calls' = llm_calls + 1
    /\ last_request' = messages
    /\ pc' = "llm"
    /\ UNCHANGED <<busVars, outbound, consumed, sessions, toolVars, turnVars, messages,
                   final_content, tool_calls, tc_idx, tool_execs, tool_responses,
                   tools_requested, saves, first_response, raised_at, outcome, timed_out>>

SystemLoopExit ==
    /\ UNCHANGED auxVars
    /\ pc = "loop"
    /\ msg.channel = SystemChannel
    /\ ~LoopGuard(iteration)
    /\ pc' = "persist"
    /\ UNCHANGED <<busVars, outbound, consumed, sessions, toolVars, turnVars, messages,
                   iteration, final_content, tool_calls, tc_idx, llm_calls, tool_execs,
                   tool_responses, tools_requested, saves, last_request, first_response,
                   raised_at, outcome, timed_out>>

SystemLLMToolCalls ==
    /\ UNCHANGED auxVars
    /\ pc = "llm"
    /\ msg.channel = SystemChannel
    /\ \E n \in CallsAffordable(published, tools_requested), content \in {None, <<>>} :
         \E tcs \in ToolCallLists(iteration, n) :
            /\ messages' = add_assistant_message(messages, content, tool_call_dicts(tcs))
            /\ tool_calls' = tcs
            /\ tools_requested' = tools_requested + n
            /\ first_response' = Recorded(TRUE, None)
    /\ tc_idx' = 1
    /\ raised_at' = {}
    /\ tool_responses' = tool_responses + 1
    /\ pc' = "tools"
    /\ UNCHANGED <<busVars, outbound, consumed, sessions, toolVars, turnVars, iteration,
                   final_content, llm_calls, tool_execs, saves, last_request, outcome, timed_out>>

SystemLLMFinal ==
    /\ UNCHANGED auxVars
    /\ pc = "llm"
    /\ msg.channel = SystemChannel
    /\ \E content \in FinalContents :
            /\ final_content' = content
            /\ first_response' = Recorded(FALSE, content)
    /\ pc' = "persist"
    /\ UNCHANGED <<busVars, outbound, consumed, sessions, toolVars, turnVars, messages,
                   iteration, tool_calls, tc_idx, llm_calls, tool_execs, tool_responses,
                   tools_requested, saves, last_request, raised_at, outcome, timed_out>>

SystemLLMTimeout ==
    /\ UNCHANGED auxVars
    /\ pc = "llm"
    /\ msg.channel = SystemChannel
    /\ final_content' = SystemTimeoutText
    /\ timed_out' = TRUE
    /\ pc' = AfterTimeout
    /\ UNCHANGED <<busVars, outbound, consumed, sessions, toolVars, turnVars, messages,
                   iteration, tool_calls, tc_idx, llm_calls, tool_execs, tool_responses,
                   tools_requested, saves, last_request, first_response, raised_at, outcome>>

SystemLLMRaises ==
    /\ UNCHANGED auxVars
    /\ pc = "llm"
    /\ msg.channel = SystemChannel
    /\ outbound' = RunPublish(outbound, RunErrorMessage(msg, <<"boom">>))
    /\ EndTurn
    /\ pc' = "idle"
    /\ outcome' = "raised"
    /\ UNCHANGED <<busVars, consumed, sessions, toolVars, turnVars, final_content,
                   llm_calls, tool_execs, tool_responses, tools_requested, saves,
                   first_response>>

\* one tool call of the response: execution (no context is set), result entry
SystemExecuteTool ==
    /\ UNCHANGED auxVars
    /\ pc = "tools"
    /\ msg.channel = SystemChannel
    /\ \E fate \in Fates :
         LET tc == NextCall(tool_calls, tc_idx)
             o == RegistryExecute(tc.name, tc.arguments, ToolContexts(clear_ctx, import_ctx),
                                  World(sessions, history_files), fate)
         IN  /\ sessions' = o.ss.sessions
             /\ history_files' = o.ss.files
             /\ messages' = add_tool_result(messages, tc.id, tc.name, ToolResultOf(o))
             /\ raised_at' = IF o.raised THEN raised_at \cup {tc_idx} ELSE raised_at
             /\ pc' = AfterTool(o, tc_idx, Len(tool_calls))
    /\ tc_idx' = tc_idx + 1
    /\ tool_execs' = tool_execs + 1
    /\ UNCHANGED <<busVars, outbound, consumed, message_ctx, spawn_ctx, clear_ctx,
                   import_ctx, turnVars, iteration,
                   final_content, tool_calls, llm_calls, tool_responses, tools_requested,
                   saves, last_request, first_response, outcome, timed_out>>

SystemPersist ==
    /\ UNCHANGED auxVars
    /\ pc = "persist"
    /\ msg.channel = SystemChannel
    /\ LET final == FinalOrFallback(final_content, SystemFallbackText)
       IN  /\ final_content' = final
           /\ sessions' = [sessions EXCEPT
                  ![session_key] = PersistTurn(@, SystemUserEntry(msg), final)]
           /\ outbound' = RunPublish(outbound,
                                     OutboundMessage(origin.channel, origin.chat_id, final))
    /\ saves' = saves + 1
    /\ EndTurn
    /\ pc' = "idle"
    /\ outcome' = "returned"
    /\ UNCHANGED <<busVars, consumed, toolVars, turnVars, llm_calls, tool_execs,
                   tool_responses, tools_requested, first_response>>

\* ------------------------------------------------------------ specification
Next ==
    \/ PublishInbound
    \/ ProcessMessage
    \/ ProcessMessageRaises
    \/ CallLLM
    \/ LoopExit
    \/ LLMToolCalls
    \/ LLMFinal
    \/ LLMTimeout
    \/ LLMRaises
    \/ ExecuteTool
    \/ Persist
    \/ ProcessSystemMessage
    \/ ProcessSystemMessageRaises
    \/ SystemCallLLM
    \/ SystemLoopExit
    \/ SystemLLMToolCalls
    \/ SystemLLMFinal
    \/ SystemLLMTimeout
    \/ SystemLLMRaises
    \/ SystemExecuteTool
    \/ SystemPersist

Spec == Init /\ [][Next]_vars

\* ------------------------------------------------- two turns in flight
\* process_direct: the message it builds from the content it is given
DirectMessage(content) ==
    [channel |-> CliChannel, sender_id |-> <<"user">>, chat_id |-> <<"direct">>,
     content |-> content, media |-> <<>>, metadata |-> EmptyMeta]

\* the messages a task processes: run() those of the bus, a caller of
\* process_direct the one process_direct builds
TaskInputs(t) == IF t = "run" THEN Inputs ELSE {DirectMessage(<<"hello">>)}

\* the session keys callers of process_direct pass: the default, another one
DirectKeys == { <<"cli", Colon, "direct">>, <<"job", Colon, "7">> }

\* the session_key argument of a task's turn (run() has none)
TaskKeys(t) == IF t = "run" THEN {None} ELSE DirectKeys

\* the key of the session _process_message and _process_system_message
\* resolve for a message
TurnSessionKey(m) ==
    IF m.channel = SystemChannel
    THEN ParseOrigin(m.chat_id).channel \o <<Colon>> \o ParseOrigin(m.chat_id).chat_id
    ELSE session_key_of(m)

\* the user entry a turn persists for its message
TurnUserEntry(m) ==
    IF m.channel = SystemChannel THEN SystemUserEntry(m) ELSE ChannelPostContent(m)

\* the channel and chat a turn sets the message and spawn tools to
TurnContext(m) ==
    IF m.channel = SystemChannel THEN ParseOrigin(m.chat_id)
    ELSE [channel |-> m.channel, chat_id |-> m.chat_id]

\* what the two-turn actions leave alone
loopOnlyVars ==
    <<inbound, published, adminVars, pc, turnVars, messages, iteration,
      final_content, tool_calls, tc_idx, llm_calls, tool_execs, tool_responses,
      saves, last_request, first_response, raised_at, timed_out, outcome, bm, ut, ch,
      snd, tl>>

\* task t enters _process_message: the contexts of the message and spawn
\* tools are set, then the turn waits for the model (its first await)
TaskStart(t) ==
    /\ tasks[t].pc = "idle"
    /\ Spent(consumed + 1, tools_requested) <= MaxEvents
    /\ \E m \in TaskInputs(t), session_key_arg \in TaskKeys(t) :
          /\ sessions' = get_or_create(sessions, TurnSessionKey(m))
          /\ message_ctx' = TurnContext(m)
          /\ spawn_ctx' = TurnContext(m)
          /\ tasks' = [tasks EXCEPT ![t] =
                 [pc |-> "llm", own |-> TurnContext(m), used |-> NoContext, iteration |-> 1,
                  arg |-> session_key_arg, key |-> TurnSessionKey(m),
                  entry |-> TurnUserEntry(m), final |-> None]]
    /\ consumed' = consumed + 1
    /\ UNCHANGED <<outbound, tools_requested, loopOnlyVars>>

\* the end of task t's turn with the answer final: the session of the turn
\* gets the user and the assistant entry ("Save to session")
TaskPersist(t, final) ==
    sessions' = [sessions EXCEPT ![tasks[t].key] = PersistTurn(@, tasks[t].entry, final)]

\* MessageTool.execute, SpawnTool.execute: the tool works with the context
\* its set_context stored last
ContextAtExecute(name, message, spawn) == IF name = "message" THEN message ELSE spawn

\* the model answers task t with a call of the message or the spawn tool:
\* the tool runs with the context it holds at that moment; the loop then
\* calls the model again, or leaves with the fallback when its budget is used
\* up (run() publishes what its turn returns)
TaskToolCall(t) ==
    /\ tasks[t].pc = "llm"
    /\ Spent(consumed, tools_requested + 1) <= MaxEvents
    /\ \E name \in {"message", "spawn"} :
          tasks' = [tasks EXCEPT ![t] =
              IF LoopGuard(tasks[t].iteration)
              THEN [@ EXCEPT !.used = ContextAtExecute(name, message_ctx, spawn_ctx),
                             !.iteration = @ + 1]
              ELSE [@ EXCEPT !.used = ContextAtExecute(name, message_ctx, spawn_ctx),
                             !.pc = "idle", !.final = FallbackText]]
    /\ IF LoopGuard(tasks[t].iteration) THEN UNCHANGED sessions
       ELSE TaskPersist(t, FallbackText)
    /\ outbound' =
           IF ~LoopGuard(tasks[t].iteration) /\ t = "run"
           THEN RunPublish(outbound, OutboundMessage(tasks[t].own.channel,
                                                     tasks[t].own.chat_id, FallbackText))
           ELSE outbound
    /\ tools_requested' = tools_requested + 1
    /\ UNCHANGED <<consumed, message_ctx, spawn_ctx, loopOnlyVars>>

\* the model answers task t without tool calls: the turn returns (run()
\* publishes the response, process_direct returns its content)
TaskFinal(t) ==
    /\ tasks[t].pc = "llm"
    /\ tasks' = [tasks EXCEPT ![t].pc = "idle", ![t].final = <<"hi there">>]
    /\ TaskPersist(t, <<"hi there">>)
    /\ outbound' =
           IF t = "run"
           THEN RunPublish(outbound, OutboundMessage(tasks[t].own.channel,
                                                     tasks[t].own.chat_id, <<"hi there">>))
           ELSE outbound
    /\ UNCHANGED <<consumed, tools_requested, message_ctx, spawn_ctx, loopOnlyVars>>

NextTwoTurns ==
    \/ \E t \in Tasks : TaskStart(t)
    \/ \E t \in Tasks : TaskToolCall(t)
    \/ \E t \in Tasks : TaskFinal(t)

SpecTwoTurns == Init /\ [][NextTwoTurns]_vars

\* ------------------------------------------------ build_messages on its own
\* the entries of the histories build_messages is given
BuildEntries ==
    { Entry(role, content, <<>>, None, None) :
        role \in {"system", "user", "assistant"}, content \in {<<"a">>, <<"b">>} }

\* the histories of at most MaxHistory entries
BuildHistories ==
    UNION { [1..n -> BuildEntries] : n \in 0..MaxHistory }

InitBuild ==
    /\ InitLoop
    /\ tasks = IdleTasks
    /\ ut = NoUserTurn
    /\ ch = NoChannel
    /\ snd = NoSend
    /\ tl = NoTool
    /\ \E h \in BuildHistories, c \in {<<"hello">>, <<>>} :
          bm = [history |-> h, given |-> h, current_message |-> c,
                result |-> <<>>, built |-> FALSE]

\* the call: the result is the list build_messages returns; the list of the
\* caller is only read (messages.extend(history))
BuildMessages ==
    /\ ~bm.built
    /\ bm' = [bm EXCEPT !.result = build_messages(bm.history, bm.current_message, <<>>),
                        !.built = TRUE]
    /\ UNCHANGED <<loopVars, tasks, ut, ch, snd, tl>>

NextBuild == BuildMessages

SpecBuild == InitBuild /\ [][NextBuild]_vars

\* ------------------------------------------- the user turn of a message
\* the media paths adapters hand over: a photo, a voice note, a document, a
\* file that is gone, a file without extension
MediaPaths == {"a.jpg", "b.ogg", "d.pdf", "gone.jpg", "e"}

\* the media lists of at most MaxMedia paths
MediaLists == UNION { [1..n -> MediaPaths] : n \in 0..MaxMedia }

\* the texts users write
MediaTexts == { <<"hello">>, <<"describe", " this">>, <<"watch ", "youtu.be/", "abc">> }

\* who writes: in a private chat, a member of a group, the admin in a group
MediaSenders ==
    { [is_admin |-> FALSE, chat_id |-> <<"42">>],
      [is_admin |-> FALSE, chat_id |-> <<"42">>, is_group |-> TRUE,
       username |-> <<"see", "ker">>, first_name |-> <<"Ann">>],
      [is_admin |-> TRUE, chat_id |-> <<"42">>, is_group |-> TRUE] }

\* content_parts.append(f"[{media_type}: {file_path}]"): the note an adapter
\* adds to the content for each file it has downloaded
RECURSIVE MediaNotes(_, _)
MediaNotes(media, media_type) ==
    IF media = <<>> THEN <<>>
    ELSE <<"\n[", media_type, ": ", Head(media), "]">> \o MediaNotes(Tail(media), media_type)

\* the messages with media: the text, then the notes of the files, which the
\* adapter calls images or files
MediaInputs ==
    { TgMessage(text \o MediaNotes(media, media_type), media, sender) :
        text \in MediaTexts, media \in MediaLists, media_type \in {"image", "file"},
        sender \in MediaSenders }

InitUserTurn ==
    /\ InitLoop
    /\ tasks = IdleTasks
    /\ bm = NoBuild
    /\ ch = NoChannel
    /\ snd = NoSend
    /\ tl = NoTool
    /\ \E m \in MediaInputs : ut = [message |-> m, built |-> FALSE]

\* _process_message from the channel-post framing to build_messages: the
\* user message with its prefix and transcript, and the content of the user
\* turn the context builder makes of it and of the media
BuildUserTurn ==
    /\ ~ut.built
    /\ \E fate \in Fates :
          LET m == [ut.message EXCEPT !.content = ChannelPostContent(ut.message)]
              current_message == AutoExtractTranscript(CurrentMessage(m), m.content, fate)
          IN  ut' = [message |-> ut.message, built |-> TRUE,
                     current_message |-> current_message,
                     content |-> build_user_content(current_message, m.media)]
    /\ UNCHANGED <<loopVars, tasks, bm, ch, snd, tl>>

NextUserTurn == BuildUserTurn

SpecUserTurn == InitUserTurn /\ [][NextUserTurn]_vars

\* -------------------------------------------------------- BaseChannel
Bar == "|"

HasBar(s) == \E i \in 1..Len(s) : s[i] = Bar

\* str.split("|")
RECURSIVE SplitBar(_)
SplitBar(s) ==
    IF ~HasBar(s) THEN <<s>>
    ELSE LET i == CHOOSE i \in 1..Len(s) : s[i] = Bar /\ \A j \in 1..(i - 1) : s[j] # Bar
         IN  <<SubSeq(s, 1, i - 1)>> \o SplitBar(SubSeq(s, i + 1, Len(s)))

is_allowed_any_part(allow_list, sender_id) ==
    \/ allow_list = {}
    \/ sender_id \in allow_list
    \/ /\ HasBar(sender_id)
       /\ \E k \in 1..Len(SplitBar(sender_id)) : SplitBar(sender_id)[k] \in allow_list

\* BaseChannel.is_allowed: no allow list, the whole id in the list, or a
\* non-empty part of an id with "|" in the list
is_allowed(allow_list, sender_id) ==
    IF allow_list = {} THEN TRUE
    ELSE IF sender_id \in allow_list THEN TRUE
    ELSE IF HasBar(sender_id)
    THEN \E k \in 1..Len(SplitBar(sender_id)) :
            SplitBar(sender_id)[k] # <<>> /\ SplitBar(sender_id)[k] \in allow_list
    ELSE FALSE

\* metadata=None
NoneMeta == NoneChunk :> TRUE

\* the InboundMessage _handle_message builds: media or [], metadata or {}
InboundMessage(channel, sender_id, chat_id, content, media, metadata) ==
    [channel |-> channel, sender_id |-> sender_id, chat_id |-> chat_id,
     content |-> content, media |-> IF media = None THEN <<>> ELSE media,
     metadata |-> IF metadata = NoneMeta THEN EmptyMeta ELSE metadata]

\* BaseChannel._handle_message of the adapter c: the inbound queue after the
\* call
handle_message(queue, c, sender_id, chat_id, content, media, metadata, skip_allow_check) ==
    IF ~skip_allow_check /\ ~is_allowed(c.allow_from, sender_id) THEN queue
    ELSE Append(queue, InboundMessage(c.name, sender_id, chat_id, content, media, metadata))

\* a started adapter with its configuration; nobody is in an upload state
Channel(allow_from, allow_chats) ==
    [started |-> TRUE, name |-> <<"telegram">>, allow_from |-> allow_from,
     allow_chats |-> allow_chats, user_states |-> {}, chat_ids |-> {}, handled |-> 0,
     last |-> [kind |-> "none"]]

\* the allow lists of configurations: none, a user id, a username, an id with
\* username, the empty string
BaseAllowLists == { {}, {<<"7">>}, {<<"bob">>}, {<<"8", Bar, "bob">>}, {<<>>} }

\* the sender ids adapters pass: an id, an id with username, an id with an
\* empty username
BaseSenders == { <<"7">>, <<"8", Bar, "bob">>, <<"8", Bar>>, <<"9", Bar, "7">> }

\* the optional arguments: left out, or given
BaseOptionals == { [media |-> None, metadata |-> NoneMeta],
                   [media |-> <<"a.jpg">>, metadata |-> [type |-> <<"x">>]] }

\* what the adapter actions leave alone
adapterFrame ==
    <<outbound, published, consumed, sessions, toolVars, pc, turnVars, messages,
      iteration, final_content, tool_calls, tc_idx, llm_calls, tool_execs,
      tool_responses, tools_requested, saves, last_request, first_response, raised_at,
      timed_out, outcome, tasks, bm, ut, snd, tl>>

InitBase ==
    /\ InitLoop
    /\ tasks = IdleTasks
    /\ bm = NoBuild
    /\ ut = NoUserTurn
    /\ snd = NoSend
    /\ tl = NoTool
    /\ \E allow_from \in BaseAllowLists : ch = Channel(allow_from, {})

\* an adapter calls _handle_message
HandleMessage ==
    /\ ch.handled < MaxUpdates
    /\ \E sender_id \in BaseSenders, opt \in BaseOptionals, skip_allow_check \in BOOLEAN :
          /\ inbound' = handle_message(inbound, ch, sender_id, <<"42">>, <<"hello">>,
                                       opt.media, opt.metadata, skip_allow_check)
          /\ ch' = [ch EXCEPT !.handled = @ + 1,
                              !.last = [kind |-> "handle", sender_id |-> sender_id,
                                        chat_id |-> <<"42">>, content |-> <<"hello">>,
                                        media |-> opt.media, metadata |-> opt.metadata,
                                        skip_allow_check |-> skip_allow_check,
                                        before |-> Len(inbound)]]
    /\ UNCHANGED adapterFrame

NextBase == HandleMessage

SpecBase == InitBase /\ [][NextBase]_vars

\* ---------------------------------------------------- TelegramChannel
\* the users that write to the bot: 7 without a username, 8 called bob, and
\* the service account that forwards channel posts to the discussion group
TgUser(id, username) == [id |-> id, username |-> username, first_name |-> <<"Name">>]
User7 == TgUser(<<"7">>, None)
User8 == TgUser(<<"8">>, <<"bob">>)
ServiceUser == TgUser(<<"777000">>, None)

\* the chats: the private chat of a user, a supergroup
PrivateChat(user) == [id |-> user.id, type |-> "private"]
GroupChat == [id |-> <<"-", "100">>, type |-> "supergroup"]

\* an update with a message: who wrote it and where, its text, whether it
\* carries a document, replies to a message of the bot, is a channel post
\* forwarded automatically (sender_chat, is_automatic_forward), and the text
\* of its mention entity (None without one)
Update(user, chat, text, document, reply_to_bot, auto_forward, mention) ==
    [user |-> user, chat |-> chat, text |-> text, document |-> document,
     reply_to_bot |-> reply_to_bot, auto_forward |-> auto_forward, mention |-> mention]

\* the messages of user 7: in private, in the group
MessagesOf7 ==
    { Update(User7, PrivateChat(User7), <<"hello">>, FALSE, FALSE, FALSE, None),
      Update(User7, GroupChat, <<"hello">>, FALSE, FALSE, FALSE, None) }

\* the messages of user 8 in private: a text, a document, a document in reply
\* to the bot
PrivateMessagesOf8 ==
    { Update(User8, PrivateChat(User8), <<"hello">>, FALSE, FALSE, FALSE, None),
      Update(User8, PrivateChat(User8), <<>>, TRUE, FALSE, FALSE, None),
      Update(User8, PrivateChat(User8), <<>>, TRUE, TRUE, FALSE, None) }

\* the messages of user 8 in the group: without a trigger, with a direct
\* trigger as a word and inside a word, with a context trigger, replies to
\* the bot, mentions, a document
GroupMessagesOf8 ==
    { Update(User8, GroupChat, <<"hello">>, FALSE, FALSE, FALSE, None),
      Update(User8, GroupChat, <<"hey", " ", "Bot">>, FALSE, FALSE, FALSE, None),
      Update(User8, GroupChat, <<"ro", "bot">>, FALSE, FALSE, FALSE, None),
      Update(User8, GroupChat, <<"ton">>, FALSE, FALSE, FALSE, None),
      Update(User8, GroupChat, <<"ok", " ", ":)">>, FALSE, TRUE, FALSE, None),
      Update(User8, GroupChat, <<"thanks">>, FALSE, TRUE, FALSE, None),
      Update(User8, GroupChat, <<"@cloptbot_bot", " ", "hello">>, FALSE, FALSE, FALSE,
             <<"@cloptbot_bot">>),
      Update(User8, GroupChat, <<"@bob", " ", "hello">>, FALSE, FALSE, FALSE, <<"@bob">>),
      Update(User8, GroupChat, <<>>, TRUE, FALSE, FALSE, None) }

\* a channel post in the discussion group
ChannelPosts == { Update(ServiceUser, GroupChat, <<"news">>, FALSE, FALSE, TRUE, None) }

\* the updates _on_message gets
MessageUpdates == MessagesOf7 \cup PrivateMessagesOf8 \cup GroupMessagesOf8 \cup ChannelPosts

\* the commands: who sends them, and where
CommandUpdates ==
    { [user |-> User7, chat |-> PrivateChat(User7)],
      [user |-> User8, chat |-> PrivateChat(User8)],
      [user |-> User8, chat |-> GroupChat] }

\* the configurations: allow_from without entries, with user 7, with bob
TgAllowLists == { {}, {<<"7">>}, {<<"bob">>} }

\* allow_chats without entries, with the group's id as it is or without its
\* sign, with another chat
TgAllowChats == { {}, {<<"-", "100">>}, {<<"100">>}, {<<"-", "5">>} }

\* what the bot's API calls of a handler do: all succeed; the download of the
\* file fails; the download succeeds and the reply that follows it fails
TgFates == {"ok", "download_fails", "reply_fails"}

\* sender_id: the numeric id, with the username when there is one
TgSenderId(user) ==
    IF Truthy(user.username) THEN user.id \o <<Bar>> \o user.username ELSE user.id

\* str(abs(int(chat_id)))
AbsId(id) == IF Head(id) = "-" THEN Tail(id) ELSE id

IsGroup(chat) == chat.type \in {"group", "supergroup"}

\* "\n".join(content_parts)
RECURSIVE JoinLines(_)
JoinLines(parts) ==
    IF parts = <<>> THEN <<>>
    ELSE IF Len(parts) = 1 THEN parts[1]
    ELSE parts[1] \o <<"\n">> \o JoinLines(Tail(parts))

\* the file a document is downloaded to
MediaFileOf(u) == "doc1"

\* media_paths of a message: the file of its document when the download
\* succeeded
TgMedia(u, fate) == IF u.document /\ fate # "download_fails" THEN <<MediaFileOf(u)>> ELSE <<>>

\* content: text and the note of the media, "[empty message]" without either
TgContent(u, fate) ==
    LET text == IF u.text # <<>> THEN <<u.text>> ELSE <<>>
        note == IF ~u.document THEN <<>>
                ELSE IF fate # "download_fails"
                THEN << <<"[", "file", ": ", MediaFileOf(u), "]">> >>
                ELSE << <<"[", "file", ": download failed]">> >>
    IN  IF text \o note = <<>> THEN <<"[empty message]">> ELSE JoinLines(text \o note)

\* the chunks without a letter, digit or underscore at their ends
NonWordChunks == { " ", "\n", "[", "]", ": ", ":)", ": download failed]" }

\* how many characters of a chunk re.sub(r'[^\w\s]', '', ...) keeps; the
\* chunks of the replies are listed, other words count as long
KeptChars(chunk) ==
    IF chunk \in {":)", "[", "]"} THEN 0
    ELSE IF chunk \in {" ", "\n"} THEN 1
    ELSE IF chunk = "ok" THEN 2
    ELSE 3

IsSpace(chunk) == chunk \in {" ", "\n"}

\* str.strip() on the chunks that are left
RECURSIVE Strip(_)
Strip(t) ==
    IF t = <<>> THEN t
    ELSE IF IsSpace(Head(t)) THEN Strip(Tail(t))
    ELSE IF IsSpace(Last(t)) THEN Strip(SubSeq(t, 1, Len(t) - 1))
    ELSE t

RECURSIVE SumKept(_)
SumKept(t) == IF t = <<>> THEN 0 ELSE KeptChars(Head(t)) + SumKept(Tail(t))

\* text_only: content without punctuation and emoji, stripped
TextOnly(content) == Strip(SelectSeq(content, LAMBDA c : KeptChars(c) > 0))

\* is_meaningful: len(text_only) >= 3
IsMeaningful(content) == SumKept(TextOnly(content)) >= 3

\* the trigger words (the Russian ones transliterated)
direct_triggers == { "klop", "bot", "klopbot", "clopbot", "bro" }
context_triggers == { "tonify", "ton", "nigredo", "web3", "degen", "spotify", "soundcloud" }

\* re.search(r'\b' + trigger + r'\b', text_lower): a chunk of the text is
\* one of the triggers and no word goes on before or after it
HasWord(text, triggers) ==
    \E i \in 1..Len(text) :
        /\ Lower(text)[i] \in triggers
        /\ i = 1 \/ text[i - 1] \in NonWordChunks
        /\ i = Len(text) \/ text[i + 1] \in NonWordChunks

\* _should_respond_in_group: draw is whether random.random() < 0.2
should_respond_in_group(text, has_mention, draw) ==
    IF text = <<>> THEN FALSE
    ELSE IF has_mention THEN TRUE
    ELSE IF HasWord(text, direct_triggers) THEN TRUE
    ELSE IF HasWord(text, context_triggers) /\ draw THEN TRUE
    ELSE FALSE

\* has_mention: a mention entity whose text contains the bot's name
HasMention(u) == u.mention # None /\ u.text # <<>> /\ Lower(u.mention) = <<"@cloptbot_bot">>

\* is_channel_post: sender_chat and is_automatic_forward
IsChannelPost(u) == u.auto_forward

\* the allow_chats filter ignores the message
ChatNotAllowed(c, u) ==
    /\ c.allow_chats # {}
    /\ IsGroup(u.chat) \/ IsChannelPost(u)
    /\ u.chat.id \notin c.allow_chats
    /\ AbsId(u.chat.id) \notin c.allow_chats

\* the trigger checks of a group ignore the message
GroupIgnores(u, content, draw) ==
    /\ IsGroup(u.chat)
    /\ IF u.reply_to_bot THEN ~IsMeaningful(content)
       ELSE IF IsChannelPost(u) THEN FALSE
       ELSE ~should_respond_in_group(content, HasMention(u), draw)

\* the channel a forwarded post comes from
SenderChat == [id |-> <<"-", "200">>, title |-> <<"News">>]

\* is_admin: the channel of a post or the user is in allow_from
TgIsAdmin(c, u) ==
    \/ /\ IsChannelPost(u)
       /\ c.allow_from # {}
       /\ SenderChat.id \in c.allow_from \/ AbsId(SenderChat.id) \in c.allow_from
    \/ c.allow_from # {} /\ u.user.id \in c.allow_from

\* the metadata of the message that is published
TgMetadata(c, u) ==
    LET base == [message_id |-> <<"m1">>, user_id |-> u.user.id,
                 username |-> u.user.username, first_name |-> u.user.first_name,
                 chat_id |-> u.chat.id, is_group |-> IsGroup(u.chat),
                 is_admin |-> TgIsAdmin(c, u)]
    IN  IF IsChannelPost(u)
        THEN base @@ [is_channel_post |-> TRUE, channel_title |-> SenderChat.title,
                      reply_to |-> <<"m1">>]
        ELSE base

\* self._chat_ids[sender_id] = chat_id, the dictionary as a set of pairs
StoreChatId(chat_ids, sender_id, chat_id) ==
    { p \in chat_ids : p[1] # sender_id } \cup { <<sender_id, chat_id>> }

\* the text of the event published for an uploaded history file
UploadEventText ==
    <<"SYSTEM: History file uploaded to ", "data/history.json",
      ". Please use the 'ingest_history' tool to process it and update my persona.">>

\* what a handler leaves alone beside the adapter, the queue and the files
tgFrame ==
    <<outbound, published, consumed, sessions, message_ctx, spawn_ctx, clear_ctx,
      import_ctx, pc, turnVars, messages, iteration, final_content, tool_calls,
      tc_idx, llm_calls, tool_execs, tool_responses, tools_requested, saves,
      last_request, first_response, raised_at, timed_out, outcome, tasks, bm, ut, snd, tl>>

InitTelegram ==
    /\ InitLoop
    /\ tasks = IdleTasks
    /\ bm = NoBuild
    /\ ut = NoUserTurn
    /\ snd = NoSend
    /\ tl = NoTool
    /\ \E allow_from \in TgAllowLists, allow_chats \in TgAllowChats :
          ch = Channel(allow_from, allow_chats)

\* what a handler records of its call: the update, what the API calls and
\* the random draw did, whether the user was asked for the history file and
\* how long the queue was when it began, whether the message went on to the
\* processing of regular messages
Handled(kind, u, fate, draw, regular) ==
    [kind |-> kind, update |-> u, fate |-> fate, draw |-> draw,
     waiting |-> u.user.id \in ch.user_states, before |-> Len(inbound),
     regular |-> regular]

\* /start: a greeting
OnStart ==
    /\ ch.handled < MaxUpdates
    /\ \E u \in CommandUpdates :
          ch' = [ch EXCEPT !.handled = @ + 1,
                           !.last = Handled("start", u, "ok", FALSE, FALSE)]
    /\ UNCHANGED <<inbound, history_files, tgFrame>>

\* /init: the user is asked for the history file
OnInit ==
    /\ ch.handled < MaxUpdates
    /\ \E u \in CommandUpdates :
          ch' = [ch EXCEPT !.handled = @ + 1,
                           !.user_states = @ \cup {u.user.id},
                           !.last = Handled("init", u, "ok", FALSE, FALSE)]
    /\ UNCHANGED <<inbound, history_files, tgFrame>>

\* _on_message while the user is asked for the history file and sends a
\* document: download, state reset, reply, event
OnHistoryDocument ==
    /\ ch.handled < MaxUpdates
    /\ \E u \in MessageUpdates, fate \in TgFates :
          /\ ~u.reply_to_bot
          /\ u.user.id \in ch.user_states
          /\ u.document
          /\ ch' = [ch EXCEPT
                 !.handled = @ + 1,
                 !.chat_ids = StoreChatId(@, TgSenderId(u.user), u.chat.id),
                 !.user_states = IF fate = "download_fails" THEN @ ELSE @ \ {u.user.id},
                 !.last = Handled("message", u, fate, FALSE, FALSE)]
          /\ inbound' =
                 IF fate = "ok"
                 THEN handle_message(inbound, ch, TgSenderId(u.user), u.chat.id,
                                     UploadEventText, <<>>, [type |-> <<"system_event">>],
                                     TRUE)
                 ELSE inbound
    /\ UNCHANGED <<history_files, tgFrame>>

\* _on_message otherwise: the upload state is reset unless the message
\* replies to the bot; content and media; the filters of chats and groups;
\* metadata; a channel post is saved to the history of its chat; the
\* message goes to _handle_message, which checks allow_from in private chats
OnMessage ==
    /\ ch.handled < MaxUpdates
    /\ \E u \in MessageUpdates, fate \in TgFates \ {"reply_fails"}, draw \in BOOLEAN :
          LET waiting == u.user.id \in ch.user_states
              content == TgContent(u, fate)
              ignored == ChatNotAllowed(ch, u) \/ GroupIgnores(u, content, draw)
          IN  /\ ~(waiting /\ ~u.reply_to_bot /\ u.document)
              /\ ch' = [ch EXCEPT
                     !.handled = @ + 1,
                     !.chat_ids = StoreChatId(@, TgSenderId(u.user), u.chat.id),
                     !.user_states = IF u.reply_to_bot THEN @ ELSE @ \ {u.user.id},
                     !.last = Handled("message", u, fate, draw, TRUE)]
              /\ history_files' =
                     IF ~ignored /\ IsChannelPost(u)
                     THEN history_files \cup {HistoryFile(u.chat.id)}
                     ELSE history_files
              /\ inbound' =
                     IF ignored THEN inbound
                     ELSE handle_message(inbound, ch, TgSenderId(u.user), u.chat.id, content,
                                         TgMedia(u, fate), TgMetadata(ch, u), IsGroup(u.chat))
    /\ UNCHANGED tgFrame

NextTelegram == OnStart \/ OnInit \/ OnHistoryDocument \/ OnMessage

SpecTelegram == InitTelegram /\ [][NextTelegram]_vars

\* ----------------------------------------------- TelegramChannel.send
\* the chunks that are decimal numbers
NumberChunks == { "5", "7", "8", "17", "42", "100", "200" }

\* int(s) returns: s is a number, with a sign or without; otherwise int
\* raises ValueError
IsInteger(s) ==
    \/ Len(s) = 1 /\ s[1] \in NumberChunks
    \/ Len(s) = 2 /\ s[1] = "-" /\ s[2] \in NumberChunks

\* text.replace("&", "&amp;").replace("<", "&lt;").replace(">", "&gt;")
EscapeHtml(t) ==
    [i \in 1..Len(t) |->
        IF t[i] = "&" THEN "&amp;"
        ELSE IF t[i] = "<" THEN "&lt;"
        ELSE IF t[i] = ">" THEN "&gt;"
        ELSE t[i]]

\* re.sub(r'\*\*(.+?)\*\*', r'<b>\1</b>', text): opened says a pair is open
RECURSIVE BoldHtml(_, _)
BoldHtml(t, opened) ==
    IF t = <<>> THEN <<>>
    ELSE IF Head(t) = "**" /\ opened THEN <<"</b>">> \o BoldHtml(Tail(t), FALSE)
    ELSE IF /\ Head(t) = "**"
            /\ \E i \in 3..Len(t) : t[i] = "**"
         THEN <<"<b>">> \o BoldHtml(Tail(t), TRUE)
    ELSE <<Head(t)>> \o BoldHtml(Tail(t), opened)

\* _markdown_to_telegram_html, for texts of words, bold marks and the
\* characters HTML escapes
markdown_to_telegram_html(text) == BoldHtml(EscapeHtml(text), FALSE)

\* the messages send gets: chat ids that are numbers and one that is a
\* name, with and without the message replied to, with and without the
\* request for voice
SendChatIds == { <<"42">>, <<"-", "100">>, <<"bob">> }
SendReplyTos == { None, <<"17">>, <<"m1">> }
SendContents == { <<"hello">>, <<"**", "hi", "**", " ", "<", "3">> }
SendMetadata == { EmptyMeta, "voice" :> TRUE }

SendMessages ==
    { [OutboundMessage(<<"telegram">>, chat_id, content) EXCEPT
          !.reply_to = reply_to, !.metadata = metadata] :
        chat_id \in SendChatIds, content \in SendContents,
        reply_to \in SendReplyTos, metadata \in SendMetadata }

\* what the API answers to the message sent as HTML: it is sent; the
\* entities cannot be parsed; a request that is refused as invalid for
\* another reason ("Bad Request: message thread id invalid"); anything else
HtmlFates == { "ok", "cant_parse", "invalid", "network" }

\* str(html_error).lower() of the errors
ErrorText(fate) ==
    IF fate = "cant_parse" THEN <<"can't parse", " entities: unsupported start tag">>
    ELSE IF fate = "invalid" THEN <<"message thread id ", "invalid">>
    ELSE <<"timed out">>

\* the test that decides on the plain text fallback
FallsBackToPlain(fate) ==
    \E i \in 1..Len(ErrorText(fate)) :
        ErrorText(fate)[i] \in {"can't parse", "parse error", "invalid"}

\* what the calls of one send do: _generate_voice returns a path, send_voice
\* returns, os.unlink returns, the API's answer to the HTML message, the
\* plain message is sent
SendFates ==
    [generated : BOOLEAN, voice_sent : BOOLEAN, unlinked : BOOLEAN,
     html : HtmlFates, plain_sent : BOOLEAN]

\* a call of the bot's API and whether it delivered
Attempt(kind, text, ok) == [kind |-> kind, text |-> text, ok |-> ok]

\* the text part of send: the HTML message, and the plain one after it
\* when the error asks for it
SendText(m, fate) ==
    <<Attempt("html", markdown_to_telegram_html(m.content), fate.html = "ok")>> \o
    (IF fate.html # "ok" /\ FallsBackToPlain(fate.html)
     THEN <<Attempt("plain", m.content, fate.plain_sent)>>
     ELSE <<>>)

\* the voice part of send: the calls made, and whether send returned there
SendVoice(m, edge_tts, fate) ==
    LET should_use_voice == Get(m.metadata, "voice", FALSE) /\ edge_tts
    IN  IF ~should_use_voice \/ ~fate.generated
        THEN [calls |-> <<>>, returned |-> FALSE]
        ELSE [calls |-> <<Attempt("voice", <<>>, fate.voice_sent)>>,
              returned |-> fate.voice_sent /\ fate.unlinked]

\* TelegramChannel.send: the API calls it makes, in order
SendCalls(started, edge_tts, m, fate) ==
    IF ~started THEN <<>>
    ELSE IF ~IsInteger(m.chat_id) THEN <<>>
    ELSE IF Truthy(m.reply_to) /\ ~IsInteger(m.reply_to) THEN <<>>
    ELSE LET voice == SendVoice(m, edge_tts, fate)
         IN  IF voice.returned THEN voice.calls
             ELSE voice.calls \o SendText(m, fate)

\* the exceptions that reach the outer handler of send: those of the two
\* int(); the calls of the API, of _generate_voice and of os.unlink are
\* inside handlers of Exception
OuterExceptions(started, m) ==
    IF ~started THEN {}
    ELSE IF ~IsInteger(m.chat_id) THEN {"ValueError"}
    ELSE IF Truthy(m.reply_to) /\ ~IsInteger(m.reply_to) THEN {"ValueError"}
    ELSE {}

\* the state around the channel, which send leaves alone
sendFrame ==
    <<inbound, outbound, published, consumed, sessions, toolVars, pc, turnVars, messages,
      iteration, final_content, tool_calls, tc_idx, llm_calls, tool_execs,
      tool_responses, tools_requested, saves, last_request, first_response, raised_at,
      timed_out, outcome, tasks, bm, ut, ch, tl>>

InitSend ==
    /\ InitLoop
    /\ tasks = IdleTasks
    /\ bm = NoBuild
    /\ ut = NoUserTurn
    /\ ch = NoChannel
    /\ tl = NoTool
    /\ \E started \in BOOLEAN, edge_tts \in BOOLEAN, m \in SendMessages :
          snd = [done |-> FALSE, started |-> started, edge_tts |-> edge_tts, msg |-> m]

\* send(msg): the outer handler catches ValueError
Send ==
    /\ ~snd.done
    /\ \E fate \in SendFates :
          snd' = [done |-> TRUE, started |-> snd.started, edge_tts |-> snd.edge_tts,
                  msg |-> snd.msg, fate |-> fate,
                  calls |-> SendCalls(snd.started, snd.edge_tts, snd.msg, fate),
                  raised |-> OuterExceptions(snd.started, snd.msg) \ {"ValueError"} # {}]
    /\ UNCHANGED sendFrame

NextSend == Send

SpecSend == InitSend /\ [][NextSend]_vars

\* ---------------------------------------------------- ClearContextTool
\* the tool after __init__: _current_user_id is None, _is_admin is not set;
\* session_manager is the manager or None
ClearContextTool(session_manager) ==
    [user_id |-> None, is_admin_set |-> FALSE, is_admin |-> FALSE,
     session_manager |-> session_manager]

\* set_user_context
set_user_context(tool, user_id, is_admin) ==
    [tool EXCEPT !.user_id = user_id, !.is_admin_set = TRUE, !.is_admin = is_admin]

\* getattr(self, '_is_admin', False)
IsAdminAlways(tool) == TRUE
IsAdminAttr(tool) == IF ~tool.is_admin_set THEN FALSE ELSE tool.is_admin

\* the name file_path.with_suffix(".backup.<time>.md") gives a memory file
BackupName(file) == SubSeq(file, 1, Len(file) - 1) \o <<".backup.", "time", ".md">>

\* memory_dir.glob("*.md")
MemoryGlob(memory) == { f \in memory : Last(f) = ".md" }

ClearFailedError == <<"Error clearing context: ", "rename failed">>
NoManagerText == <<"Session manager not available. Context may not be fully cleared.">>

\* ClearContextTool.execute with the memory directory: ss are the sessions
\* of the manager, memory the files of workspace/memory; renamed are the
\* files renamed before a rename raises (all of them when none does)
ClearContextToolExecute(args, tool, ss, memory, renamed) ==
    LET ctx == [user_id |-> tool.user_id, is_admin |-> IsAdminAttr(tool)]
        o == ClearContextExecute(args, ctx, ss)
        cleared == IF tool.session_manager THEN o.ss ELSE ss
        after == (memory \ renamed) \cup { BackupName(f) : f \in renamed }
    IN  IF ~ctx.is_admin \/ ~args.confirm
        THEN [result |-> o.result, ss |-> ss, memory |-> memory]
        ELSE IF args.action = <<"session">> /\ ~tool.session_manager
        THEN [result |-> NoManagerText, ss |-> ss, memory |-> memory]
        ELSE IF args.action = <<"all">>
        THEN [result |-> IF renamed = MemoryGlob(memory) THEN o.result ELSE ClearFailedError,
              ss |-> cleared, memory |-> after]
        ELSE [result |-> o.result, ss |-> cleared, memory |-> memory]

\* the sessions the manager holds when the tool is called
ClearSessionStores ==
    LET one == add_message(<<>>, "user", <<"hello">>)
        none == [k \in {} |-> <<>>]
    IN  { none,
          (<<"tg", Colon, "42">> :> one),
          (<<"tg", Colon, "42">> :> one) @@ (<<"cli", Colon, "direct">> :> one) }

\* the files of workspace/memory
MemoryFileSets ==
    { {}, { <<"MEMORY", ".md">> }, { <<"MEMORY", ".md">>, <<"log", ".txt">> } }

\* the arguments of a call: the three actions and one the tool does not know
ClearArgs ==
    [action : { <<"session">>, <<"today">>, <<"all">>, <<"reset">> }, confirm : BOOLEAN]

\* the state around the tool, which its calls leave alone
toolFrame ==
    <<inbound, outbound, published, consumed, sessions, toolVars, pc, turnVars, messages,
      iteration, final_content, tool_calls, tc_idx, llm_calls, tool_execs,
      tool_responses, tools_requested, saves, last_request, first_response, raised_at,
      timed_out, outcome, tasks, bm, ut, ch, snd>>

InitClear ==
    /\ InitLoop
    /\ tasks = IdleTasks
    /\ bm = NoBuild
    /\ ut = NoUserTurn
    /\ ch = NoChannel
    /\ snd = NoSend
    /\ \E ss \in ClearSessionStores, memory \in MemoryFileSets, manager \in BOOLEAN :
          tl = [calls |-> 0, tool |-> ClearContextTool(manager), ss |-> ss,
                memory |-> memory, last |-> [kind |-> "none"]]

\* the loop sets the user context of the tool
SetUserContext ==
    /\ tl.calls < MaxToolCalls
    /\ \E user_id \in { <<"7">>, <<"8">> }, is_admin \in BOOLEAN :
          tl' = [tl EXCEPT !.calls = @ + 1,
                           !.tool = set_user_context(@, user_id, is_admin),
                           !.last = [kind |-> "context"]]
    /\ UNCHANGED toolFrame

\* execute(action, confirm)
ClearExecute ==
    /\ tl.calls < MaxToolCalls
    /\ \E args \in ClearArgs, renamed \in SUBSET MemoryGlob(tl.memory) :
          LET o == ClearContextToolExecute(args, tl.tool, tl.ss, tl.memory, renamed)
          IN  tl' = [tl EXCEPT !.calls = @ + 1, !.ss = o.ss, !.memory = o.memory,
                               !.last = [kind |-> "execute", args |-> args,
                                         result |-> o.result, ss |-> tl.ss,
                                         memory |-> tl.memory]]
    /\ UNCHANGED toolFrame

NextClear == SetUserContext \/ ClearExecute

SpecClear == InitClear /\ [][NextClear]_vars

\* -------------------------------------------------------- ReminderTool
\* a datetime is the number of seconds since midnight of day 0
Minute == 60
Hour == 60 * Minute
Day == 24 * Hour
Clock(day, hour, minute, second) == day * Day + hour * Hour + minute * Minute + second

\* the date of a datetime
DayOf(t) == t \div Day

\* now.replace(hour=h, minute=m, second=0, microsecond=0): the value, and
\* whether replace raises ValueError (hour not in 0..23, minute not in 0..59)
Replace(t, h, m) ==
    [raised |-> h > 23 \/ m > 59, time |-> DayOf(t) * Day + h * Hour + m * Minute]

\* the chunks \d+ matches, and int() of them
NumberOf(c) ==
    IF c \in {"0", "00"} THEN 0
    ELSE IF c = "9" THEN 9
    ELSE IF c = "15" THEN 15
    ELSE IF c = "25" THEN 25
    ELSE IF c = "30" THEN 30
    ELSE CHOOSE n \in 0..(MaxDelay + 1) : ToString(n) = c

IsNumber(c) ==
    c \in {"0", "00", "9", "15", "25", "30"} \cup { ToString(n) : n \in 0..(MaxDelay + 1) }

\* keyword in when_lower, for the stems the tool looks for (the Russian
\* ones transliterated)
HasStem(when_lower, stems) == \E i \in 1..Len(when_lower) : when_lower[i] \in stems

\* re.search(r'cherez\s+(\d+)\s+' + unit, when_lower): the positions where
\* the pattern matches
DelayMatches(when_lower, unit) ==
    { i \in 1..(Len(when_lower) - 4) :
        /\ when_lower[i] = "cherez"
        /\ when_lower[i + 1] = " "
        /\ IsNumber(when_lower[i + 2])
        /\ when_lower[i + 3] = " "
        /\ when_lower[i + 4] = unit }

\* int(match.group(1)) of the first match
DelayOf(when_lower, unit) ==
    LET i == CHOOSE k \in DelayMatches(when_lower, unit) :
                 \A j \in DelayMatches(when_lower, unit) : k <= j
    IN  NumberOf(when_lower[i + 2])

\* re.search(r'(\d{1,2}):(\d{2})', when_lower)
TimeMatches(when_lower) ==
    { i \in 1..(Len(when_lower) - 2) :
        /\ IsNumber(when_lower[i])
        /\ when_lower[i + 1] = ":"
        /\ IsNumber(when_lower[i + 2]) }

\* what _parse_time gives: a datetime, or the exception of replace
Parsed(time) == [kind |-> "datetime", time |-> time]
ParseRaised == [kind |-> "raise", time |-> 0]

RollOverNever(target, now) == target

\* if target < now: target += timedelta(days=1)
RollOver(target, now) == IF target < now THEN target + Day ELSE target

\* ReminderTool._parse_time, with now the value of datetime.now()
parse_time(now, when) ==
    LET when_lower == Strip(Lower(when))
    IN  IF HasStem(when_lower, {"vecher", "evening"})
        THEN Parsed(RollOver(Replace(now, 18, 0).time, now))
        ELSE IF HasStem(when_lower, {"utr", "morning"})
        THEN Parsed(RollOver(Replace(now, 9, 0).time, now))
        ELSE IF HasStem(when_lower, {"zavtra", "tomorrow"})
        THEN Parsed(Replace(now + Day, 9, 0).time)
        ELSE IF DelayMatches(when_lower, "chas") # {}
        THEN Parsed(now + DelayOf(when_lower, "chas") * Hour)
        ELSE IF DelayMatches(when_lower, "min") # {}
        THEN Parsed(now + DelayOf(when_lower, "min") * Minute)
        ELSE IF DelayMatches(when_lower, "sek") # {}
        THEN Parsed(now + DelayOf(when_lower, "sek"))
        ELSE IF TimeMatches(when_lower) # {}
        THEN LET i == CHOOSE k \in TimeMatches(when_lower) :
                          \A j \in TimeMatches(when_lower) : k <= j
                 target == Replace(now, NumberOf(when_lower[i]), NumberOf(when_lower[i + 2]))
             IN  IF target.raised THEN ParseRaised ELSE Parsed(RollOver(target.time, now))
        ELSE Parsed(now + Hour)

\* the values of datetime.now(): around 9:00 and 18:00, at the ends of a day
ParseNows ==
    { Clock(0, 0, 0, 0), Clock(0, 8, 59, 59), Clock(0, 9, 0, 0), Clock(0, 9, 0, 1),
      Clock(0, 17, 59, 59), Clock(0, 18, 0, 0), Clock(0, 18, 0, 1), Clock(0, 23, 59, 59) }

\* the expressions of the 'when' argument
ParseWhens ==
    { <<"vecher", "om">>, <<"utr", "om">>, <<"zavtra">>, <<" ", "Tomorrow">>,
      <<"zavtra", " ", "vecher", "om">>, <<"tomorrow", " ", "morning">>,
      <<"zavtra", " ", "v", " ", "15", ":", "00">>,
      <<"15", ":", "00">>, <<"9", ":", "30">>, <<"25", ":", "00">>, <<"later">> }
    \cup { <<"cherez", " ", ToString(n), " ", unit>> :
             n \in 0..MaxDelay, unit \in {"chas", "min", "sek"} }

InitParse ==
    /\ InitLoop
    /\ tasks = IdleTasks
    /\ bm = NoBuild
    /\ ut = NoUserTurn
    /\ ch = NoChannel
    /\ snd = NoSend
    /\ \E now \in ParseNows, when \in ParseWhens :
          tl = [calls |-> 0, now |-> now, when |-> when, result |-> ParseRaised]

\* _parse_time(when)
ParseTime ==
    /\ tl.calls = 0
    /\ tl' = [tl EXCEPT !.calls = 1, !.result = parse_time(tl.now, tl.when)]
    /\ UNCHANGED toolFrame

NextParse == ParseTime

SpecParse == InitParse /\ [][NextParse]_vars

\* the tool after __init__
ReminderTool(cron_service) == [cron_service |-> cron_service, current_chat_id |-> None]

\* set_chat_context
set_chat_context(tool, chat_id) == [tool EXCEPT !.current_chat_id = chat_id]

NoCronError == <<"Reminder system not available (cron service not initialized).">>
NoChatError == <<"No chat ID available. Cannot create reminder.">>
ReminderFailed(e) == <<"Failed to create reminder: ">> \o e
ReminderCreated(message) ==
    <<"Reminder created! I'll send this message at ", "time", ":\n\n">> \o message

\* the job cron_service.add_job is asked for
ReminderJob(target_time, message, to) ==
    [kind |-> "at", at_ms |-> target_time * 1000,
     message |-> <<"Reminder:\n\n">> \o message, deliver |-> TRUE,
     channel |-> <<"telegram">>, to |-> to, delete_after_run |-> TRUE]

\* ReminderTool.execute: jobs are the jobs of the cron service, now is
\* datetime.now(), fate what add_job does ("ok" or "raise")
ReminderExecute(tool, args, jobs, now, fate) ==
    LET target_time == parse_time(now, args.when)
        target_chat_id == IF Truthy(args.chat_id) THEN args.chat_id ELSE tool.current_chat_id
    IN  IF ~tool.cron_service THEN [result |-> NoCronError, jobs |-> jobs]
        ELSE IF target_time.kind = "raise"
        THEN [result |-> ReminderFailed(<<"hour must be in 0..23">>), jobs |-> jobs]
        ELSE IF ~Truthy(target_chat_id) THEN [result |-> NoChatError, jobs |-> jobs]
        ELSE IF fate = "raise"
        THEN [result |-> ReminderFailed(<<"boom">>), jobs |-> jobs]
        ELSE [result |-> ReminderCreated(args.message),
              jobs |-> Append(jobs, ReminderJob(target_time.time, args.message,
                                                target_chat_id))]

\* the arguments of create_reminder: a time that parses and one that makes
\* _parse_time raise; no chat_id, an empty one, another chat
ReminderArgs ==
    [message : { <<"call mom">> },
     when : { <<"vecher", "om">>, <<"25", ":", "00">> },
     chat_id : { None, <<>>, <<"99">> }]

\* the chats of the turns: str(msg.metadata.get("chat_id", msg.sender_id))
\* of a regular message, the origin chat of a system message
ReminderChats == { <<"42">>, <<"-", "100">> }

InitReminder ==
    /\ InitLoop
    /\ tasks = IdleTasks
    /\ bm = NoBuild
    /\ ut = NoUserTurn
    /\ ch = NoChannel
    /\ snd = NoSend
    /\ \E cron_service \in BOOLEAN, now \in { Clock(0, 10, 0, 0), Clock(0, 19, 0, 0) } :
          tl = [calls |-> 0, tool |-> ReminderTool(cron_service), jobs |-> <<>>,
                now |-> now, last |-> [kind |-> "none"]]

\* what a turn records of its call of the tool
ReminderCall(turn, chat, args, fate, o) ==
    [kind |-> "execute", turn |-> turn, chat |-> chat, args |-> args, fate |-> fate,
     result |-> o.result, jobs |-> tl.jobs]

\* _process_message runs a create_reminder call: set_chat_context with the
\* chat of the message, then execute
RegularTurnReminder ==
    /\ tl.calls < MaxReminderTurns
    /\ \E chat \in ReminderChats, args \in ReminderArgs, fate \in {"ok", "raise"} :
          LET tool == set_chat_context(tl.tool, chat)
              o == ReminderExecute(tool, args, tl.jobs, tl.now, fate)
          IN  tl' = [tl EXCEPT !.calls = @ + 1, !.tool = tool, !.jobs = o.jobs,
                               !.last = ReminderCall("regular", chat, args, fate, o)]
    /\ UNCHANGED toolFrame

\* _process_system_message runs a create_reminder call: execute, with the
\* chat context the tool has
SystemTurnReminder ==
    /\ tl.calls < MaxReminderTurns
    /\ \E chat \in ReminderChats, args \in ReminderArgs, fate \in {"ok", "raise"} :
          LET o == ReminderExecute(tl.tool, args, tl.jobs, tl.now, fate)
          IN  tl' = [tl EXCEPT !.calls = @ + 1, !.jobs = o.jobs,
                               !.last = ReminderCall("system", chat, args, fate, o)]
    /\ UNCHANGED toolFrame

NextReminder == RegularTurnReminder \/ SystemTurnReminder

SpecReminder == InitReminder /\ [][NextReminder]_vars

\* ------------------------------------------------------------------ claims
InTurn == pc \in {"loop", "llm", "tools", "persist"}
IsSystem == msg.channel = SystemChannel
FallbackFor(m) == IF m.channel = SystemChannel THEN SystemFallbackText ELSE FallbackText
TimeoutTextFor(m) == IF m.channel = SystemChannel THEN SystemTimeoutText ELSE TimeoutText
UserEntryFor(m) == IF m.channel = SystemChannel THEN SystemUserEntry(m) ELSE m.content
StartsWith(str, prefix) == Len(str) >= Len(prefix) /\ SubSeq(str, 1, Len(prefix)) = prefix

\* the entries of req that record a response with tool calls
CallEntries(req) == { i \in 1..Len(req) : req[i].role = "assistant" /\ req[i].tool_calls # <<>> }

\* directly after entry i of req come exactly the results of its tool calls,
\* one per call, with the ids and names of the calls, in their order
ResultsFollow(req, i) ==
    LET calls == req[i].tool_calls
        N == Len(calls)
    IN  /\ i + N <= Len(req)
        /\ \A k \in 1..N :
              /\ req[i + k].role = "tool"
              /\ req[i + k].tool_call_id = calls[k].id
              /\ req[i + k].name = calls[k].function.name
        /\ i + N < Len(req) => req[i + N + 1].role # "tool"

\* C1: in the message list of every model call, each assistant entry that
\* records N tool calls is directly followed by exactly N tool entries, the
\* k-th with the id and the name of the k-th call, also when a tool raised.
C1_ToolResultsFollowCalls ==
    \A i \in CallEntries(last_request) : ResultsFollow(last_request, i)

\* a regular turn's model call that follows a response of two tool calls, the
\* first of which raised
C1_Witness ==
    /\ pc = "llm"
    /\ ~IsSystem
    /\ \E i \in CallEntries(last_request) :
          /\ Len(last_request[i].tool_calls) = 2
          /\ StartsWith(last_request[i + 1].content, ToolErrorPrefix)

\* C2: a turn never makes more than max_iterations model calls; a turn all of
\* whose model calls were answered with tool calls makes exactly
\* max_iterations calls and returns the fallback answer.
C2_IterationBudget ==
    /\ llm_calls <= max_iterations
    /\ (outcome = "returned" /\ tool_responses = llm_calls)
          => /\ llm_calls = max_iterations
             /\ Last(outbound).content = FallbackFor(msg)

C2_Witness ==
    /\ outcome = "returned"
    /\ tool_responses = max_iterations
    /\ llm_calls = max_iterations

\* C3 as stated: when the first response of a turn carries no tool calls, one
\* model call is made, no tool is executed and the returned content equals the
\* content of that response.
C3_ReturnsResponseContent ==
    (outcome = "returned" /\ first_response.answered /\ ~first_response.has_tool_calls)
        => /\ llm_calls = 1
           /\ tool_execs = 0
           /\ Last(outbound).content = first_response.content

\* C3 amended: the returned content equals the content of that response, or
\* the fallback text when that content is None.
C3_ReturnsResponseContentOrFallback ==
    (outcome = "returned" /\ first_response.answered /\ ~first_response.has_tool_calls)
        => /\ llm_calls = 1
           /\ tool_execs = 0
           /\ Last(outbound).content =
                 IF first_response.content = None THEN FallbackFor(msg)
                 ELSE first_response.content

C3_Witness ==
    /\ outcome = "returned"
    /\ first_response.answered
    /\ ~first_response.has_tool_calls
    /\ first_response.content = None
    /\ llm_calls = 1
    /\ Last(outbound).content = FallbackText

\* the history of the turn's session without its last two entries
BeforeTurnEntries == SubSeq(sessions[session_key], 1, Len(sessions[session_key]) - 2)

\* the last two entries of the turn's session are the turn's user entry and
\* the returned answer
TurnEntriesLast ==
    LET h == sessions[session_key]
    IN  /\ Len(h) >= 2
        /\ h[Len(h) - 1] = [role |-> "user", content |-> UserEntryFor(msg)]
        /\ h[Len(h)] = [role |-> "assistant", content |-> Last(outbound).content]

\* C4 as stated: a turn that returns a response has saved once, after the
\* loop, and its session is the history from before the turn plus a user and
\* an assistant entry, whatever tools ran.
C4_HistoryGrowsByTwo ==
    /\ InTurn => saves = 0
    /\ outcome = "returned"
          => /\ saves = 1
             /\ TurnEntriesLast
             /\ Len(sessions[session_key]) = Len(hist0) + 2

\* C4 amended: ... its session is the history as the loop left it (the history
\* from before the turn, or the empty history when clear_context cleared the
\* sessions during the turn) plus a user and an assistant entry.
C4_HistoryGrowsByTwoUnlessCleared ==
    /\ InTurn => saves = 0
    /\ outcome = "returned"
          => /\ saves = 1
             /\ TurnEntriesLast
             /\ BeforeTurnEntries \in {hist0, <<>>}
             /\ tool_execs = 0 => BeforeTurnEntries = hist0

\* a turn on a session with history, during which clear_context cleared it
C4_Witness ==
    /\ outcome = "returned"
    /\ hist0 # <<>>
    /\ tool_execs > 0
    /\ saves = 1
    /\ Len(sessions[session_key]) = 2

\* the entry of the message list that holds the result of the idx-th tool
\* call of the response being handled
ResultEntry(idx) == messages[Len(messages) - (tc_idx - 1) + idx]

\* C5: a tool that raises does not abort the turn: its result entry is the
\* error string, the other calls of the response are executed all the same,
\* and the loop goes on to its next iteration (the turn is not left through
\* an exception of the tool).
C5_ToolFailureIsolated ==
    InTurn =>
        /\ \A idx \in raised_at :
              /\ ResultEntry(idx).role = "tool"
              /\ ResultEntry(idx).tool_call_id = tool_calls[idx].id
              /\ StartsWith(ResultEntry(idx).content, ToolErrorPrefix)
        /\ (raised_at # {} /\ pc # "tools") => tc_idx = Len(tool_calls) + 1
        /\ pc = "tools" => tc_idx \in 1..Len(tool_calls)

\* a turn in which the first of two tool calls raised, the second was still
\* executed, the model was called again, and the answer returned and saved
C5_Witness ==
    /\ outcome = "returned"
    /\ 1 \in raised_at
    /\ tool_execs = 2
    /\ llm_calls = 2
    /\ saves = 1
    /\ TurnEntriesLast

\* C6: after a model call timed out the turn makes no further model call and
\* executes no further tool; the answer is the degraded timeout text, it is
\* persisted with the user entry, saved once, and returned to the destination
\* of a normal reply.
C6_TimeoutEndsTurn ==
    timed_out =>
        /\ pc \in {"persist", "idle"}
        /\ final_content = TimeoutTextFor(msg)
        /\ pc = "idle"
              => /\ outcome = "returned"
                 /\ saves = 1
                 /\ TurnEntriesLast
                 /\ Last(outbound).channel = origin.channel
                 /\ Last(outbound).chat_id = origin.chat_id
                 /\ Last(outbound).content = TimeoutTextFor(msg)

\* a turn whose second model call timed out, after a tool was executed
C6_Witness ==
    /\ timed_out
    /\ outcome = "returned"
    /\ llm_calls = 2
    /\ tool_execs = 1
    /\ Last(outbound).content = TimeoutText

\* C7: every inbound message run() has consumed has got exactly one outbound
\* message once its turn is over, the error message when the turn raised, and
\* run() is then back at consuming the next message.
C7_OneOutboundPerInbound ==
    /\ pc = "idle" => Len(outbound) = consumed
    /\ InTurn => Len(outbound) = consumed - 1
    /\ outcome = "raised"
          => /\ pc = "idle"
             /\ Last(outbound).content = RunErrorPrefix \o <<"boom">>
    /\ outcome = "returned" => pc = "idle"

\* the first message's turn raised, the second was consumed and answered
C7_Witness ==
    /\ consumed = 2
    /\ Len(outbound) = 2
    /\ StartsWith(outbound[1].content, RunErrorPrefix)
    /\ outcome = "returned"

\* C8: the error message of a turn that raised is addressed to the channel
\* and chat the normal answer of the message goes to (the origin, for a
\* system message).
C8_ErrorToReplyDestination ==
    outcome = "raised"
        => /\ Last(outbound).channel = origin.channel
           /\ Last(outbound).chat_id = origin.chat_id

\* C9: a system message with chat_id "C:X" (C without a colon) uses session
\* "C:X", sets the message and spawn tools to (C, X) and is answered on
\* channel C, chat X; without a colon the origin is "cli" and the chat_id;
\* any other message uses its own channel and chat_id.
C9_OriginRouting ==
    consumed > 0 =>
        /\ (IsSystem /\ HasColon(msg.chat_id))
              => /\ ~HasColon(origin.channel)
                 /\ origin.channel \o <<Colon>> \o origin.chat_id = msg.chat_id
                 /\ session_key = msg.chat_id
        /\ (IsSystem /\ ~HasColon(msg.chat_id))
              => /\ origin = [channel |-> CliChannel, chat_id |-> msg.chat_id]
                 /\ session_key = CliChannel \o <<Colon>> \o msg.chat_id
        /\ ~IsSystem
              => /\ origin = [channel |-> msg.channel, chat_id |-> msg.chat_id]
                 /\ session_key = msg.channel \o <<Colon>> \o msg.chat_id
        /\ message_ctx = origin
        /\ spawn_ctx = origin
        /\ session_key \in DOMAIN sessions
        /\ outcome = "returned"
              => /\ Last(outbound).channel = origin.channel
                 /\ Last(outbound).chat_id = origin.chat_id
                 /\ TurnEntriesLast

\* a system message whose chat_id has two colons, answered on the origin
C9_Witness ==
    /\ IsSystem
    /\ msg.chat_id = <<"tg", Colon, "42", Colon, "7">>
    /\ outcome = "returned"
    /\ Last(outbound).channel = <<"tg">>
    /\ Last(outbound).chat_id = <<"42", Colon, "7">>
    /\ session_key = msg.chat_id

\* C10: while a turn is in its loop its session has not been extended by the
\* turn, and the history part of the message list given to the model is the
\* history retrieved from the session as it was before the turn began.
C10_HistoryExcludesTurn ==
    InTurn =>
        /\ sessions[session_key] \in {hist0, <<>>}
        /\ pc = "llm"
              => LET H == get_history(hist0)
                 IN  /\ Len(last_request) >= Len(H) + 2
                     /\ last_request[1].role = "system"
                     /\ SubSeq(last_request, 2, Len(H) + 1) = H
                     /\ last_request[Len(H) + 2].role = "user"
                     /\ \A i \in (Len(H) + 3)..Len(last_request) :
                           last_request[i].role \in {"assistant", "tool"}

\* a model call of a turn on a session that has history
C10_Witness ==
    /\ pc = "llm"
    /\ hist0 # <<>>
    /\ Len(hist0) > HistoryWindow
    /\ sessions[session_key] = hist0

\* the user entry of the turn's session once the turn has been persisted
PersistedUserEntry == sessions[session_key][Len(sessions[session_key]) - 1]

\* C11: the user entry a turn on a regular channel appends to its session
\* equals the content of the inbound message as it was received, also for
\* channel posts and for messages received in groups.
C11_UserEntryIsReceivedContent ==
    (outcome = "returned" /\ ~IsSystem)
        => PersistedUserEntry = [role |-> "user", content |-> received.content]

\* the tool called name is the one the turn has executed last
ExecutedLast(name) ==
    /\ InTurn
    /\ tc_idx > 1
    /\ tool_calls[tc_idx - 1].name = name

\* C12: a context-dependent tool runs with the context of the message being
\* processed: the admin flag and the user id of its metadata, and the chat
\* the message belongs to, in regular turns and in system turns.
C12_ContextOfCurrentMessage ==
    /\ ExecutedLast("clear_context")
          => clear_ctx = [user_id |-> Get(msg.metadata, "user_id", <<"unknown">>),
                          is_admin |-> Get(msg.metadata, "is_admin", FALSE)]
    /\ ExecutedLast("import_channel_history")
          => import_ctx = [is_admin |-> Get(msg.metadata, "is_admin", FALSE),
                           chat_id |-> origin.chat_id]

\* C13: in a turn whose message is not from an admin the admin-only tools get
\* the admin-only error and change nothing: the session of the turn stays as
\* it was when the turn began.
C13_AdminOnlyEffects ==
    (InTurn /\ ~Get(msg.metadata, "is_admin", FALSE))
        => /\ sessions[session_key] = hist0
           /\ (ExecutedLast("clear_context") \/ ExecutedLast("import_channel_history"))
                 => Last(messages).content = AdminOnlyError

\* C15: run() consumes a message only when every message consumed before has
\* been answered on the outbound queue and its turn, if it returned, has
\* saved its session; every publication appends one response, that of the
\* message consumed last, so the responses are in consumption order.
C15_RunIsSequential ==
    [][ /\ consumed' # consumed
            => /\ consumed' = consumed + 1
               /\ Len(outbound) = consumed
               /\ consumed > 0 => outcome \in {"returned", "raised"}
               /\ outcome = "returned" => (saves = 1 /\ TurnEntriesLast)
        /\ outbound' # outbound
            => /\ Len(outbound') = Len(outbound) + 1
               /\ SubSeq(outbound', 1, Len(outbound)) = outbound
               /\ Len(outbound') = consumed'
               /\ Last(outbound').chat_id \in {msg'.chat_id, origin'.chat_id} ]_vars

\* the second message of a session is being processed after the first turn was
\* saved and answered, while a third message waits on the queue
C15_Witness ==
    /\ consumed = 2
    /\ pc = "llm"
    /\ Len(outbound) = 1
    /\ Len(hist0) = 2
    /\ inbound # <<>>

\* C16: while the tools of a response are executed, the message list ends
\* with the assistant entry of the response followed by the results of the
\* calls executed so far, in the order of the calls; the model is called
\* again only when the results of all the calls have been appended.
C16_ToolsOneAfterAnother ==
    /\ pc = "tools"
          => /\ tc_idx \in 1..Len(tool_calls)
             /\ LET base == Len(messages) - (tc_idx - 1)
                IN  /\ base >= 1
                    /\ messages[base].role = "assistant"
                    /\ Len(messages[base].tool_calls) = Len(tool_calls)
                    /\ \A k \in 1..(tc_idx - 1) :
                          /\ messages[base + k].role = "tool"
                          /\ messages[base + k].tool_call_id = tool_calls[k].id
                          /\ messages[base + k].name = tool_calls[k].name
    /\ (pc = "llm" /\ tool_responses > 0)
          => LET n == Len(tool_calls)
             IN  /\ tc_idx = n + 1
                 /\ \A k \in 1..n :
                       /\ last_request[Len(last_request) - n + k].role = "tool"
                       /\ last_request[Len(last_request) - n + k].tool_call_id = tool_calls[k].id

\* the first of two different tools has been executed, the second not yet
C16_Witness ==
    /\ pc = "tools"
    /\ Len(tool_calls) = 2
    /\ tc_idx = 2
    /\ tool_calls[1].name # tool_calls[2].name
    /\ Last(messages).tool_call_id = tool_calls[1].id

\* the user message of the message list of the turn
UserMessage == messages[Len(get_history(hist0)) + 2]

C18_ContentNeverEmpty ==
    outcome = "returned" => Last(outbound).content \notin {None, <<>>}

\* C19: the OutboundMessage of a regular turn goes to the channel and chat of
\* the inbound message, replies to the message_id of its metadata (None
\* without one), carries voice = True exactly when the text as received has
\* a voice phrase, and the inline_request_id of the metadata when there is
\* one.
C19_ResponseFields ==
    (outcome = "returned" /\ ~IsSystem) =>
        LET r == Last(outbound)
        IN  /\ r.channel = received.channel
            /\ r.chat_id = received.chat_id
            /\ r.reply_to = Get(received.metadata, "message_id", None)
            /\ Get(r.metadata, "voice", FALSE) = UseVoice(received.content)
            /\ Get(r.metadata, "inline_request_id", None)
                  = Get(received.metadata, "inline_request_id", None)

\* C14: with two turns in flight on one loop, every execution of the message
\* or the spawn tool in a turn uses the channel and chat of that turn.
C14_ToolUsesContextOfItsTurn ==
    \A t \in Tasks : tasks[t].used # NoContext => tasks[t].used = tasks[t].own

\* C20: the list build_messages returns is one system entry, the history it
\* was given, entry by entry, and one user entry with the new message; the
\* two entries it adds are the first and the last, and the list of the
\* caller is as it was.
C20_BuildMessagesShape ==
    bm.built =>
        /\ Len(bm.result) = Len(bm.given) + 2
        /\ bm.result[1] = Entry("system", SystemPrompt, <<>>, None, None)
        /\ SubSeq(bm.result, 2, Len(bm.result) - 1) = bm.given
        /\ Last(bm.result) = Entry("user", bm.current_message, <<>>, None, None)
        /\ bm.history = bm.given

\* a call with a history of two entries that itself begins with a system entry
C20_Witness ==
    /\ bm.built
    /\ Len(bm.given) = 2
    /\ bm.given[1].role = "system"
    /\ bm.given[1] # bm.given[2]
    /\ bm.result[1].role = "system"

\* part occurs in s as a contiguous part
Contains(s, part) ==
    \E i \in 1..(Len(s) - Len(part) + 1) : SubSeq(s, i, i + Len(part) - 1) = part

\* how many chunks of s are the chunk c
Count(s, c) == Cardinality({ i \in 1..Len(s) : s[i] = c })

\* C22: while and after a turn, the message of a channel post differs from
\* the received one in its content only, which is framed once: it contains
\* the received text and the channel title as contiguous parts and the head
\* of the framing a single time; a message that is no channel post is as it
\* was received, content, media and metadata.
C22_ChannelPostRewrite ==
    msg # NoMsg
        => IF ~IsSystem /\ Get(received.metadata, "is_channel_post", FALSE)
           THEN /\ msg = [received EXCEPT !.content = msg.content]
                /\ Contains(msg.content, received.content)
                /\ Contains(msg.content, received.metadata.channel_title)
                /\ Count(msg.content,
                         "SYSTEM: You are commenting on a channel post in '") = 1
                /\ Count(msg.content, "'. ... POST CONTENT:\n") = 1
           ELSE msg = received

\* the turn of a channel post has left its loop, the content framed
C22_Witness ==
    /\ pc = "persist"
    /\ Get(received.metadata, "is_channel_post", FALSE)
    /\ msg.content # received.content
    /\ Len(msg.content) = Len(received.content) + Len(received.metadata.channel_title) + 3
    /\ iteration > 0

\* C25: when a turn executes clear_context with the action "session", the
\* histories of the sessions other than the turn's own stay as they were.
C25_SessionClearsCurrentChatOnly ==
    [][ ( /\ pc = "tools"
          /\ tc_idx' = tc_idx + 1
          /\ NextCall(tool_calls, tc_idx).name = "clear_context"
          /\ NextCall(tool_calls, tc_idx).arguments.action = <<"session">> )
            => \A k \in DOMAIN sessions \ {session_key} : sessions'[k] = sessions[k] ]_vars

\* C26 as stated: a turn that ended in an exception has not saved, and its
\* session has the history it had when the turn began.
C26_AbortedTurnLeavesSession ==
    outcome = "raised" => (saves = 0 /\ sessions[session_key] = hist0)

\* C26 amended: a turn that ended in an exception has not saved and has added
\* no entry to its session: the history is the one from before the turn, or
\* empty when clear_context ran during the turn; until the persistence step
\* no turn has saved.
C26_AbortedTurnAddsNothing ==
    /\ outcome = "raised"
          => /\ saves = 0
             /\ sessions[session_key] \in {hist0, <<>>}
             /\ tool_execs = 0 => sessions[session_key] = hist0
    /\ (InTurn /\ pc # "persist") => saves = 0

\* a turn on a session with history ran a tool, then its model call raised
C26_Witness ==
    /\ outcome = "raised"
    /\ hist0 # <<>>
    /\ llm_calls > 1
    /\ tool_execs > 0
    /\ sessions[session_key] = hist0
    /\ Last(outbound).content = RunErrorPrefix \o <<"boom">>

\* C23: once process_direct has returned, the session named by its
\* session_key argument exists and holds the turn: the user entry followed by
\* the answer; the session the turn resolved is the one of that key.
C23_DirectUsesGivenSession ==
    LET d == tasks["direct"]
    IN  (d.pc = "idle" /\ d.final # None)
            => /\ d.key = d.arg
               /\ d.arg \in DOMAIN sessions
               /\ Contains(sessions[d.arg], <<[role |-> "user", content |-> d.entry],
                                              [role |-> "assistant", content |-> d.final]>>)

\* a media path the context builder can inline
Usable(path) == IsFile(path) /\ MimeClass(GuessType(path)) \in {"image", "audio", "video"}

\* C21: the user turn built for a message has inlined media only if the
\* content of the message contains an analysis keyword; without a keyword,
\* without media or without a usable file the user content is the plain text
\* the loop built for the message (build_messages does not raise then).
C21_MediaOnlyOnKeyword ==
    ut.built
        => /\ ut.content.parts # <<>> => ShouldAnalyze(ut.message.content)
           /\ ( \/ ~ShouldAnalyze(ut.message.content)
                \/ ut.message.media = <<>>
                \/ \A i \in 1..Len(ut.message.media) : ~Usable(ut.message.media[i]) )
                 => /\ ~ut.content.raised
                    /\ ut.content.parts = <<>>
                    /\ ut.content.text = ut.current_message

\* a maximal part of s without "|", from i to j
IsPart(s, i, j) ==
    /\ i <= j
    /\ \A k \in i..j : s[k] # Bar
    /\ i = 1 \/ s[i - 1] = Bar
    /\ j = Len(s) \/ s[j + 1] = Bar

\* the senders C24 describes as allowed
AllowedAsDescribed(allow_list, sender_id) ==
    \/ allow_list = {}
    \/ sender_id \in allow_list
    \/ /\ HasBar(sender_id)
       /\ \E i, j \in 1..Len(sender_id) :
              IsPart(sender_id, i, j) /\ SubSeq(sender_id, i, j) \in allow_list

\* C24: is_allowed holds exactly for the senders described; a call of
\* _handle_message has appended one message to the inbound queue if the
\* check was skipped or the sender is allowed, and nothing otherwise; the
\* message has the adapter's name and the call's sender, chat, content,
\* media and metadata (empty when left out).
C24_PublishesIffAllowed ==
    (ch.started /\ ch.last.kind = "handle")
        => LET c == ch.last
           IN  /\ \A s \in BaseSenders :
                      is_allowed(ch.allow_from, s) <=> AllowedAsDescribed(ch.allow_from, s)
               /\ IF c.skip_allow_check \/ AllowedAsDescribed(ch.allow_from, c.sender_id)
                  THEN /\ Len(inbound) = c.before + 1
                       /\ Last(inbound) =
                              [channel |-> ch.name, sender_id |-> c.sender_id,
                               chat_id |-> c.chat_id, content |-> c.content,
                               media |-> IF c.media = None THEN <<>> ELSE c.media,
                               metadata |-> IF c.metadata = NoneMeta THEN EmptyMeta
                                            ELSE c.metadata]
                  ELSE Len(inbound) = c.before

\* the first call publishes for a sender that is in the allow list only by a
\* part of its id
C24_Witness ==
    /\ ch.started
    /\ ch.last.kind = "handle"
    /\ ch.allow_from # {}
    /\ ~ch.last.skip_allow_check
    /\ HasBar(ch.last.sender_id)
    /\ ch.last.sender_id \notin ch.allow_from
    /\ Len(inbound) = 1
    /\ ch.last.before = 0

\* the last handler call was _on_message
MessageHandled == ch.started /\ ch.last.kind = "message"

\* C27: with a non-empty allow list, no message in the inbound queue that
\* comes from a private chat has a sender that is not in the allow list,
\* whatever commands and messages were sent
C27_PrivateSenderAllowed ==
    ch.started /\ ch.allow_from # {} =>
        \A i \in 1..Len(inbound) :
            inbound[i].chat_id # GroupChat.id => is_allowed(ch.allow_from, inbound[i].sender_id)

\* the last message came from a user who was asked for the history file
\* and did not reply to the bot
AwaitedMessage == MessageHandled /\ ch.last.waiting /\ ~ch.last.update.reply_to_bot

\* C28: after /init the user is waiting; the next message that is no reply
\* to the bot clears the state and publishes exactly the upload event, and
\* nothing else, when it has a document whose download succeeds; clears the
\* state and is processed as a regular message when it has no document;
\* publishes nothing and leaves the user waiting when the download fails; a
\* reply to the bot leaves the state as it was
C28_UploadState ==
    LET l == ch.last
        waits == l.update.user.id \in ch.user_states
    IN  /\ ch.started /\ l.kind = "init" => waits
        /\ AwaitedMessage /\ l.update.document /\ l.fate # "download_fails" =>
               /\ ~waits
               /\ Len(inbound) = l.before + 1
               /\ Last(inbound).content = UploadEventText
               /\ ~l.regular
        /\ AwaitedMessage /\ ~l.update.document => ~waits /\ l.regular
        /\ AwaitedMessage /\ l.update.document /\ l.fate = "download_fails" =>
               Len(inbound) = l.before /\ waits
        /\ MessageHandled /\ l.update.reply_to_bot => (waits <=> l.waiting)

\* the chat id, as it is or without its sign, is in allow_chats
ChatListed(allow_chats, chat_id) ==
    chat_id \in allow_chats \/ AbsId(chat_id) \in allow_chats

\* C29: a message of a group is published only if allow_chats is empty or
\* lists the chat, and the message is a reply to the bot with three
\* characters of text, a forwarded channel post, a mention of the bot, has a
\* direct trigger as a word, or has a context trigger and the draw succeeds
C29_GroupPublishedOnlyIfTriggered ==
    LET l == ch.last
        u == l.update
        text == TgContent(u, l.fate)
    IN  MessageHandled /\ IsGroup(u.chat) /\ Len(inbound) > l.before =>
            /\ ch.allow_chats = {} \/ ChatListed(ch.allow_chats, u.chat.id)
            /\ \/ u.reply_to_bot /\ IsMeaningful(text)
               \/ IsChannelPost(u)
               \/ HasMention(u)
               \/ HasWord(text, direct_triggers)
               \/ HasWord(text, context_triggers) /\ l.draw
\* the calls of the finished send that delivered, of one kind
Delivered(kinds) == SelectSeq(snd.calls, LAMBDA a : a.ok /\ a.kind \in kinds)

\* the calls of the finished send of one kind
Tried(kind) == SelectSeq(snd.calls, LAMBDA a : a.kind = kind)

\* voice was asked for and can be made
VoiceWanted == Get(snd.msg.metadata, "voice", FALSE) /\ snd.edge_tts

\* send got past its first checks
Sendable ==
    /\ snd.started
    /\ IsInteger(snd.msg.chat_id)
    /\ ~Truthy(snd.msg.reply_to) \/ IsInteger(snd.msg.reply_to)

\* C30: a message is delivered at most once; a voice note that was sent is
\* followed by no text; voice that fails is followed by the text; a parse
\* error of the HTML message is followed by exactly one plain message, any
\* other error by none; without an integer chat id or a started channel
\* nothing is sent; send does not raise
C30_SendAtMostOnce ==
    snd.done =>
        /\ Len(Delivered({"voice", "html", "plain"})) <= 1
        /\ Len(Delivered({"voice"})) = 1 => Tried("html") = <<>> /\ Tried("plain") = <<>>
        /\ Sendable /\ VoiceWanted /\ Delivered({"voice"}) = <<>> => Len(Tried("html")) = 1
        /\ Len(Tried("html")) = 1 /\ snd.fate.html = "cant_parse" => Len(Tried("plain")) = 1
        /\ snd.fate.html # "cant_parse" => Tried("plain") = <<>>
        /\ ~IsInteger(snd.msg.chat_id) \/ ~snd.started => snd.calls = <<>>
        /\ ~snd.raised
\* the last call of the tool was execute
ClearExecuted == tl.calls > 0 /\ tl.last.kind = "execute"

\* the user context of the tool was set, and to an admin
ClearAdmin == tl.tool.is_admin_set /\ tl.tool.is_admin

\* the call changed no session and no memory file
ClearChangedNothing == tl.ss = tl.last.ss /\ tl.memory = tl.last.memory

\* C31: without an admin user context (set to a non-admin, or never set)
\* execute returns the admin error, whatever confirm is; with one and
\* without confirm it returns the confirmation error; with both and an
\* unknown action it returns the unknown-action error; in the three cases
\* no session and no memory file is changed
C31_ClearContextErrors ==
    ClearExecuted =>
        /\ ~ClearAdmin =>
               tl.last.result = AdminOnlyError /\ ClearChangedNothing
        /\ ClearAdmin /\ ~tl.last.args.confirm =>
               tl.last.result = ConfirmError /\ ClearChangedNothing
        /\ /\ ClearAdmin
           /\ tl.last.args.confirm
           /\ tl.last.args.action \notin { <<"session">>, <<"today">>, <<"all">> }
           => tl.last.result = UnknownActionError /\ ClearChangedNothing

\* a confirmed call on a tool whose user context was never set, with
\* sessions that have entries and a memory file to back up
C31_Witness ==
    /\ ClearExecuted
    /\ ~tl.tool.is_admin_set
    /\ tl.last.args.confirm
    /\ tl.last.args.action = <<"all">>
    /\ \E k \in DOMAIN tl.ss : tl.ss[k] # <<>>
    /\ MemoryGlob(tl.memory) # {}
\* _parse_time has returned a datetime
TimeParsed == tl.calls = 1 /\ tl.result.kind = "datetime"

\* the expression contains the word for tomorrow
SaysTomorrow == HasStem(Lower(tl.when), {"zavtra", "tomorrow"})

\* C33: an expression that contains the word for tomorrow gives a time on
\* the day after the day of the call, also with further time words
C33_TomorrowIsNextDay ==
    TimeParsed /\ SaysTomorrow => DayOf(tl.result.time) = DayOf(tl.now) + 1

\* C34: the time _parse_time returns is never earlier than the time of the
\* call, in every branch, and _parse_time never returns None
C34_ParsedTimeNotInPast ==
    tl.calls = 1 =>
        /\ tl.result.kind # "none"
        /\ tl.result.kind = "datetime" => tl.result.time >= tl.now

\* "15:00" asked after 15:00: the time is the one of the next day
C34_Witness ==
    /\ TimeParsed
    /\ tl.when = <<"15", ":", "00">>
    /\ tl.now = Clock(0, 18, 0, 1)
    /\ tl.result.time = Clock(1, 15, 0, 0)
\* the last step was a call of create_reminder
ReminderCalled == tl.calls > 0 /\ tl.last.kind = "execute"

\* the error strings of the tool
ReminderErrors ==
    { NoCronError, NoChatError, ReminderFailed(<<"boom">>),
      ReminderFailed(<<"hour must be in 0..23">>) }

\* the call had no chat to address: no chat_id argument and no chat context
NoChatForReminder == ~Truthy(tl.last.args.chat_id) /\ ~Truthy(tl.tool.current_chat_id)

\* creating the job raised
ReminderRaised ==
    tl.last.fate = "raise" \/ parse_time(tl.now, tl.last.args.when).kind = "raise"

\* C32: without a cron service, or without a chat_id argument and a chat
\* context, execute adds no job and returns an error string; an exception
\* while the job is created is returned as an error string; otherwise
\* exactly one job is added, deleted after its run and addressed to the
\* chat_id argument if given, else to the chat of the current turn
C32_ReminderJob ==
    ReminderCalled =>
        LET l == tl.last
        IN  IF ~tl.tool.cron_service \/ NoChatForReminder
            THEN tl.jobs = l.jobs /\ l.result \in ReminderErrors
            ELSE IF ReminderRaised
            THEN l.result \in ReminderErrors
            ELSE /\ Len(tl.jobs) = Len(l.jobs) + 1
                 /\ SubSeq(tl.jobs, 1, Len(l.jobs)) = l.jobs
                 /\ Last(tl.jobs).delete_after_run
                 /\ Last(tl.jobs).kind = "at"
                 /\ Last(tl.jobs).to =
                        IF Truthy(l.args.chat_id) THEN l.args.chat_id ELSE l.chat
====
